---- MODULE Spec2Model ----
(***************************************************************************)
(* Metadata resolution engine of wav_to_flac_converter.py:                 *)
(* AdvancedMetadataLookup.get_metadata and the four source clients it      *)
(* drives (catalog track search, catalog album search, acoustic            *)
(* fingerprinting, Last.fm text search), with their caches and the         *)
(* MusicBrainz rate limiter.                                               *)
(*                                                                         *)
(* A metadata record (a Python dict of strings) is a function from field   *)
(* names to strings; its DOMAIN is the set of keys present.  An Optional   *)
(* record is a sequence of length 0 (None) or 1.                           *)
(***************************************************************************)
EXTENDS Integers, Sequences, FiniteSets, TLC

(***************************************************************************)
(* Bounds of the model.                                                    *)
(***************************************************************************)
MaxCalls == 2        \* get_metadata calls in one run
MaxTrack == 2        \* largest path-derived track number

(***************************************************************************)
(* Dict helpers.                                                           *)
(***************************************************************************)
EmptyRec == << >>
None == << >>
Some(r) == << r >>
IsSome(o) == Len(o) = 1
\* dict.get(k) used in a truth test: a missing key and '' are both falsy
Get(r, k) == IF k \in DOMAIN r THEN r[k] ELSE ""
\* d[k] = v
Put(r, k, v) == (k :> v) @@ r

(***************************************************************************)
(* str(n), str.zfill(2) and int(s) on decimal strings.                     *)
(***************************************************************************)
DigitStr == << "0", "1", "2", "3", "4", "5", "6", "7", "8", "9" >>

RECURSIVE Str(_)
Str(n) == IF n < 10 THEN DigitStr[n + 1]
          ELSE Str(n \div 10) \o DigitStr[(n % 10) + 1]

ZFill2(s) == IF Len(s) < 2 THEN "0" \o s ELSE s

\* the decimal strings int() accepts, within the model's range of positions
NumStrings == { Str(n) : n \in 0..(MaxTrack + 1) }
                 \cup { ZFill2(Str(n)) : n \in 0..(MaxTrack + 1) }
IntOk(s) == s \in NumStrings
IntOf(s) == CHOOSE n \in 0..(MaxTrack + 1) : s \in { Str(n), ZFill2(Str(n)) }

(***************************************************************************)
(* Character view of the names that occur as titles, for the regular       *)
(* expressions of _is_generic_filename.                                    *)
(***************************************************************************)
Chars(s) ==
    CASE s = "" -> << >>
      [] s = "Bohemian" -> << "B", "o", "h", "e", "m", "i", "a", "n" >>
      [] s = "Tagged" -> << "T", "a", "g", "g", "e", "d" >>
      [] s = "Track 01" -> << "T", "r", "a", "c", "k", " ", "0", "1" >>
      [] s = "04 Bohemian Rhapsody.wav" -> << "0", "4", " ", "B", "o", "h", "e", "m", "i", "a", "n", " ", "R", "h", "a", "p", "s", "o", "d", "y", ".", "w", "a", "v" >>
      [] s = "Bohemian Rhapsody.wav" -> << "B", "o", "h", "e", "m", "i", "a", "n", " ", "R", "h", "a", "p", "s", "o", "d", "y", ".", "w", "a", "v" >>
      [] s = "Track 01.wav" -> << "T", "r", "a", "c", "k", " ", "0", "1", ".", "w", "a", "v" >>
      [] s = "01.wav" -> << "0", "1", ".", "w", "a", "v" >>
      [] s = "7 - Track.wav" -> << "7", " ", "-", " ", "T", "r", "a", "c", "k", ".", "w", "a", "v" >>
      [] s = "00 Intro.wav" -> << "0", "0", " ", "I", "n", "t", "r", "o", ".", "w", "a", "v" >>
      [] s = "12_Song.wav" -> << "1", "2", "_", "S", "o", "n", "g", ".", "w", "a", "v" >>
      [] s = "Untitled.wav" -> << "U", "n", "t", "i", "t", "l", "e", "d", ".", "w", "a", "v" >>
      [] s = "track05.wav" -> << "t", "r", "a", "c", "k", "0", "5", ".", "w", "a", "v" >>
      [] s = "05. Track05.wav" -> << "0", "5", ".", " ", "T", "r", "a", "c", "k", "0", "5", ".", "w", "a", "v" >>
      [] s = "Intro" -> << "I", "n", "t", "r", "o" >>
      [] s = "Love 2 Track.wav" -> << "L", "o", "v", "e", " ", "2", " ", "T", "r", "a", "c", "k", ".", "w", "a", "v" >>
      [] s = "Pista 03.wav" -> << "P", "i", "s", "t", "a", " ", "0", "3", ".", "w", "a", "v" >>
      [] s = "Audio 01.wav" -> << "A", "u", "d", "i", "o", " ", "0", "1", ".", "w", "a", "v" >>
      [] s = "Song 01.wav" -> << "S", "o", "n", "g", " ", "0", "1", ".", "w", "a", "v" >>
      [] s = "TRACK 01.wav" -> << "T", "R", "A", "C", "K", " ", "0", "1", ".", "w", "a", "v" >>
      [] s = "Bohemian.wav" -> << "B", "o", "h", "e", "m", "i", "a", "n", ".", "w", "a", "v" >>
      [] s = "Bohemian.flac" -> << "B", "o", "h", "e", "m", "i", "a", "n", ".", "f", "l", "a", "c" >>
      [] s = "cover.jpg" -> << "c", "o", "v", "e", "r", ".", "j", "p", "g" >>
      [] s = ".wav" -> << ".", "w", "a", "v" >>
      [] s = ".flac" -> << ".", "f", "l", "a", "c" >>
      [] s = "A Night at the Opera (1975)" -> << "A", " ", "N", "i", "g", "h", "t", " ", "a", "t", " ", "t", "h", "e", " ", "O", "p", "e", "r", "a", " ", "(", "1", "9", "7", "5", ")" >>
      [] s = "Opera" -> << "O", "p", "e", "r", "a" >>
      [] s = "Opera (1875)" -> << "O", "p", "e", "r", "a", " ", "(", "1", "8", "7", "5", ")" >>
      [] s = "[2001] Live" -> << "[", "2", "0", "0", "1", "]", " ", "L", "i", "v", "e" >>
      [] s = "1975 - Opera" -> << "1", "9", "7", "5", " ", "-", " ", "O", "p", "e", "r", "a" >>
      [] s = "Opera_1975" -> << "O", "p", "e", "r", "a", "_", "1", "9", "7", "5" >>
      [] s = "Live - 2001 (1999)" -> << "L", "i", "v", "e", " ", "-", " ", "2", "0", "0", "1", " ", "(", "1", "9", "9", "9", ")" >>
      [] s = "Opera [1875]" -> << "O", "p", "e", "r", "a", " ", "[", "1", "8", "7", "5", "]" >>
      [] s = "Queen" -> << "Q", "u", "e", "e", "n" >>
      [] s = "Various" -> << "V", "a", "r", "i", "o", "u", "s" >>
      [] s = "VA" -> << "V", "A" >>
      [] s = "Compilation" -> << "C", "o", "m", "p", "i", "l", "a", "t", "i", "o", "n" >>
      [] s = "Rock" -> << "R", "o", "c", "k" >>
      [] s = "various artists" -> << "v", "a", "r", "i", "o", "u", "s", " ", "a", "r", "t", "i", "s", "t", "s" >>
      [] s = "various" -> << "v", "a", "r", "i", "o", "u", "s" >>
      [] s = "compilation" -> << "c", "o", "m", "p", "i", "l", "a", "t", "i", "o", "n" >>
      [] s = "va" -> << "v", "a" >>
      [] s = "Various Artists" -> << "V", "a", "r", "i", "o", "u", "s", " ", "A", "r", "t", "i", "s", "t", "s" >>

UpperCase == << "A", "B", "C", "D", "E", "F", "G", "H", "I", "J", "K", "L", "M",
                "N", "O", "P", "Q", "R", "S", "T", "U", "V", "W", "X", "Y", "Z" >>
LowerCase == << "a", "b", "c", "d", "e", "f", "g", "h", "i", "j", "k", "l", "m",
                "n", "o", "p", "q", "r", "s", "t", "u", "v", "w", "x", "y", "z" >>
LowerChar(c) == IF \E i \in 1..26 : UpperCase[i] = c
                THEN LowerCase[CHOOSE i \in 1..26 : UpperCase[i] = c]
                ELSE c
LowerSeq(s) == [i \in 1..Len(s) |-> LowerChar(s[i])]

Space == { " " }
RECURSIVE LStrip(_)
LStrip(s) == IF Len(s) > 0 /\ s[1] \in Space THEN LStrip(Tail(s)) ELSE s
RECURSIVE RStrip(_)
RStrip(s) == IF Len(s) > 0 /\ s[Len(s)] \in Space
             THEN RStrip(SubSeq(s, 1, Len(s) - 1)) ELSE s
Strip(s) == RStrip(LStrip(s))

Digits == { "0", "1", "2", "3", "4", "5", "6", "7", "8", "9" }
Sep4 == { " ", "-", "_", "." }       \* [\s\-_\.]
Sep3 == { " ", "-", "_" }            \* [\s\-_]

\* index just after the longest run of characters of class C starting at i
RECURSIVE Run(_, _, _)
Run(s, i, C) == IF i <= Len(s) /\ s[i] \in C THEN Run(s, i + 1, C) ELSE i

\* the word w occurs in s at index i
HasAt(s, i, w) == /\ i + Len(w) - 1 <= Len(s)
                  /\ \A k \in 1..Len(w) : s[i + k - 1] = w[k]

W_track == << "t", "r", "a", "c", "k" >>
W_titulo == << "t", "i", "t", "u", "l", "o" >>
W_cancion == << "c", "a", "n", "c", "i", "o", "n" >>
W_song == << "s", "o", "n", "g" >>
W_untitled == << "u", "n", "t", "i", "t", "l", "e", "d" >>
W_audio == << "a", "u", "d", "i", "o" >>
W_pista == << "p", "i", "s", "t", "a" >>
TrackWords == { W_track, W_titulo, W_cancion, W_song }

\* ^word[seps]*\d+
WordThenNumber(s, w, seps) ==
    /\ HasAt(s, 1, w)
    /\ LET j == Run(s, Len(w) + 1, seps) IN Run(s, j, Digits) > j

\* The ten patterns of generic_patterns, in order, tried with re.search.
GenericPattern(s, p) ==
    LET d == Run(s, 1, Digits)          \* after ^\d+ when d > 1
        e == Run(s, d, Sep4)            \* after ^\d+[\s\-_\.]*
    IN CASE p = 1 -> WordThenNumber(s, W_track, Space)
         [] p = 2 -> d > 1 /\ HasAt(s, e, W_track)
         [] p = 3 -> d > 1 /\ e = Len(s) + 1
         [] p = 4 -> d > 1 /\ e > d /\ Run(s, e, Digits) > e
                           /\ Run(s, e, Digits) = Len(s) + 1
         [] p = 5 -> WordThenNumber(s, W_track, Sep4)
         [] p = 6 -> d > 1 /\ \E w \in TrackWords : HasAt(s, e, w)
         [] p = 7 -> \E w \in TrackWords : WordThenNumber(s, w, Sep4)
         [] p = 8 -> \E i \in 1..Len(s) : HasAt(s, i, W_untitled)
         [] p = 9 -> WordThenNumber(s, W_audio, Sep3)
         [] p = 10 -> WordThenNumber(s, W_pista, Sep3)

NumPatterns == 10

\* the patterns tried on the name as written, without lower()
IsGenericChars_as_written(cs) ==
    \E p \in 1..NumPatterns : GenericPattern(Strip(cs), p)

\* _is_generic_filename: filename.lower().strip() against each pattern
IsGenericChars(cs) ==
    LET s == Strip(LowerSeq(cs))
    IN \E p \in 1..NumPatterns : GenericPattern(s, p)

_is_generic_filename(name) == IsGenericChars(Chars(name))

MusicbrainzFields == { "musicbrainz_recordingid", "musicbrainz_trackid" }
EssentialFields == { "title", "artist", "album" }

\* a predicate that takes title, artist and album alone as complete
_is_metadata_complete_without_id(metadata) ==
    /\ \A f \in { "title", "artist", "album" } : Get(metadata, f) # ""
    /\ ~ _is_generic_filename(Get(metadata, "title"))

\* _is_metadata_complete
_is_metadata_complete(metadata) ==
    /\ \A f \in EssentialFields : Get(metadata, f) # ""
    /\ ~ _is_generic_filename(Get(metadata, "title"))
    /\ \E f \in MusicbrainzFields : Get(metadata, f) # ""

(***************************************************************************)
(* The inputs of get_metadata.  Artist and album are empty when the path    *)
(* has no directory for them; the title comes from the file name and is   *)
(* empty for a blank one.  A track number of 0 stands for a falsy           *)
(* track_number (None: the file name carries no number).                   *)
(***************************************************************************)
Artists == { "", "Queen" }
Albums == { "", "Opera" }
Titles == { "", "Bohemian" }
NoTrack == 0
TrackNumbers == 0..MaxTrack

\* Files on disk: name and size make the fingerprint cache key; stat() of a
\* file that has gone raises.
FileA == [path |-> "Queen/Opera/Track 01.wav", name |-> "Track 01.wav", size |-> "1000",
          exists |-> TRUE]
FileGone == [path |-> "Queen/Opera/gone.wav", name |-> "gone.wav", size |-> "0",
             exists |-> FALSE]
FileB == [path |-> "Queen/Opera/Track 02.wav", name |-> "Track 02.wav", size |-> "2000",
          exists |-> TRUE]
Files == { FileA, FileGone }
FilePaths == { None } \cup { Some(f) : f \in Files }

\* Tags get_existing_metadata can hand over: only non-empty, stripped values.
ExNone == EmptyRec
ExComplete == [title |-> "Tagged", artist |-> "Tagged Artist", album |-> "Tagged Album",
               musicbrainz_recordingid |-> "mbid-tagged"]
ExPartial == [title |-> "Tagged", artist |-> "Tagged Artist", album |-> "Tagged Album",
              genre |-> "Rock", track_number |-> "07"]
ExGenericTitle == [title |-> "Track 01", artist |-> "Tagged Artist",
                   album |-> "Tagged Album", musicbrainz_recordingid |-> "mbid-tagged"]
ExSparse == [artist |-> "Tagged Artist", genre |-> "Rock"]
ExistingRecords == { ExNone, ExComplete, ExPartial, ExGenericTitle, ExSparse }

ArgSets == [artist : Artists, album : Albums, title : Titles,
            track_number : TrackNumbers, is_generic : BOOLEAN,
            file_path : FilePaths, existing_metadata : ExistingRecords]

VARIABLES
    cache,                \* self.cache: track searches
    album_cache,          \* self.album_cache
    fingerprint_cache,    \* self.fingerprint_cache
    lastfm_cache,         \* self.lastfm_cache
    fingerprint_enabled,  \* self.fingerprint_enabled
    lastfm_enabled,       \* self.lastfm_enabled
    last_request_time,    \* self.last_request_time, tenths of a second
    now,                  \* time.time(), tenths of a second
    pc,                   \* position in get_metadata and the client it called
    args,                 \* arguments of the running get_metadata call
    ret,                  \* value get_metadata returned
    source,               \* the strategy whose record was returned
    log,                  \* clients this call has invoked, in order
    requests,             \* external requests this call has sent
    pre,                  \* caches and limiter state when the call began
    tmp,                  \* locals of the client being executed
    calls,                \* number of get_metadata calls begun
    failures,             \* requests that raised: in this call, in earlier calls
                          \* (a history kept only where .kept is set)
    last_catalog_time,    \* when the last request went to the catalog service
    gap,                  \* time between the last two catalog requests
    trace,                \* the requests of this call that were answered, in
                          \* order (a history kept only where .kept is set)
    path_in,              \* the path handed to parse_directory_structure
    parsed,               \* what parse_directory_structure returned
    run                   \* the converter: files left, statistics, exit status

vars == << cache, album_cache, fingerprint_cache, lastfm_cache, fingerprint_enabled,
           lastfm_enabled, last_request_time, now, pc, args, ret,
           source, log, requests, pre, tmp, calls, failures, last_catalog_time,
           gap, trace, path_in, parsed, run >>

caches == << cache, album_cache, fingerprint_cache, lastfm_cache >>
limiter == << last_request_time, now >>
flags == << fingerprint_enabled, lastfm_enabled >>
history == << failures, last_catalog_time, gap, trace >>
\* the caller's side of the lookup
parser == << path_in, parsed, run >>

Snapshot == [cache |-> cache, album_cache |-> album_cache,
             fingerprint_cache |-> fingerprint_cache, lastfm_cache |-> lastfm_cache,
             fingerprint_enabled |-> fingerprint_enabled,
             last_request_time |-> last_request_time]

RateLimitDelay == 11      \* rate_limit_delay = 1.1 s
\* time.time() at start-up is far past last_request_time = 0: the first
\* request is never delayed
StartTime == RateLimitDelay

NoArgs == [artist |-> "", album |-> "", title |-> "", track_number |-> NoTrack,
           is_generic |-> FALSE, file_path |-> None, existing_metadata |-> EmptyRec]

\* The request kinds that can raise, and the service each goes to.  The run
\* remembers a failure of the catalog service, of Last.fm and of the fpcalc
\* probe.
ServiceOf(kind) ==
    CASE kind \in { "al_strict", "al_relaxed", "al_fetch", "tr_query" } -> "catalog"
      [] kind \in { "lf_track", "lf_correct" } -> "text"
      [] kind = "probe_missing" -> "fpcalc"
      [] OTHER -> "acoustic"
Outages(kinds) == { ServiceOf(k) : k \in kinds } \ { "acoustic" }

\* EnhancedWAVToFLACConverter before main() has built it: self.stats, the
\* files still to process, the file being processed, the exit status, and
\* what happened to the last file (why it failed, which source produced its
\* record, which counter it was counted under)
NoStats == [converted |-> 0, failed |-> 0, skipped_flac |-> 0, metadata_found |-> 0,
            metadata_fallback |-> 0, metadata_fingerprint |-> 0, metadata_lastfm |-> 0,
            metadata_complete |-> 0]
NoRun == [stage |-> "new", enable_metadata |-> FALSE, files |-> << >>, file |-> << >>,
          listed |-> << >>, walked |-> << >>, tags |-> << >>,
          stats |-> NoStats, exit |-> << >>, cause |-> "", produced |-> "",
          counted |-> "", resolved |-> 0, written |-> FALSE]

\* __init__, with the history of failed requests and the trace of answered
\* requests kept or not
Construct(kept, traced) ==
    /\ cache = << >>
    /\ album_cache = << >>
    /\ fingerprint_cache = << >>
    /\ lastfm_cache = << >>
    /\ fingerprint_enabled \in BOOLEAN
    /\ lastfm_enabled \in BOOLEAN
    /\ last_request_time = 0
    /\ now = StartTime
    /\ pc = "idle"
    /\ args = NoArgs
    /\ ret = None
    /\ source = ""
    /\ log = << >>
    /\ requests = 0
    /\ tmp = << >>
    /\ calls = 0
    /\ pre = Snapshot
    /\ failures = [kept |-> kept, now |-> { }, before |-> { }]
    /\ last_catalog_time = 0
    /\ gap = RateLimitDelay
    /\ trace = [kept |-> traced, seq |-> << >>]
    /\ path_in = << >>
    /\ parsed = << >>
    /\ run = NoRun

Init == Construct(FALSE, FALSE)

\* A caller invokes get_metadata with arguments from inputs, at most limit
\* times in the run.
Call(inputs, limit) ==
    /\ pc = "idle"
    /\ calls < limit
    /\ \E a \in inputs : args' = a
    /\ pc' = "s1"
    /\ ret' = None
    /\ source' = ""
    /\ log' = << >>
    /\ requests' = 0
    /\ tmp' = << >>
    /\ calls' = calls + 1
    /\ pre' = Snapshot
    /\ UNCHANGED << caches, flags, limiter, history, parser >>

Begin == Call(ArgSets, MaxCalls)

\* The caller has the result (or the exception) and goes on to the next file.
\* The code uses differences of time.time() values only, so the clock is read
\* from the last request on: both times are shifted by last_request_time.
Finish ==
    /\ pc \in { "done", "raised" }
    /\ pc' = "idle"
    /\ args' = NoArgs
    /\ ret' = None
    /\ source' = ""
    /\ log' = << >>
    /\ requests' = 0
    /\ tmp' = << >>
    /\ now' = now - last_request_time
    /\ last_request_time' = 0
    /\ pre' = [Snapshot EXCEPT !.last_request_time = 0]
    /\ failures' = [failures EXCEPT !.now = { },
                                    !.before = @ \cup Outages(failures.now)]
    /\ last_catalog_time' = last_catalog_time - last_request_time
    /\ gap' = RateLimitDelay
    /\ trace' = [trace EXCEPT !.seq = << >>]
    /\ UNCHANGED << caches, flags, calls, parser >>

\* _rate_limit: sleep until rate_limit_delay has passed since the last
\* request, then stamp the time
RateLimitedNow == IF now - last_request_time < RateLimitDelay
                  THEN last_request_time + RateLimitDelay
                  ELSE now
_rate_limit ==
    /\ now' = RateLimitedNow
    /\ last_request_time' = RateLimitedNow

\* an external request goes out, to AcoustID, fpcalc or Last.fm
Sent ==
    /\ requests' = requests + 1
    /\ log' = log
    /\ UNCHANGED << last_catalog_time, gap >>

\* a request goes out to the catalog service (MusicBrainz)
SentCatalog ==
    /\ requests' = requests + 1
    /\ log' = log
    /\ gap' = now - last_catalog_time
    /\ last_catalog_time' = now

\* the request of this kind raised, or it did not
Raised(kind, raised) ==
    failures' = IF raised /\ failures.kept
                THEN [failures EXCEPT !.now = @ \cup { kind }]
                ELSE failures

\* the request of this kind (formulation i of the track search, else 0), sent
\* now, was answered by resp
Heard(kind, i, resp) ==
    trace' = IF trace.kept
             THEN [trace EXCEPT !.seq = Append(@, [kind |-> kind, i |-> i, at |-> now,
                                                   raised |-> resp.raised,
                                                   value |-> resp.value])]
             ELSE trace

\* return r, from the strategy named
Return(r, strategy) == pc' = "done" /\ ret' = Some(r) /\ source' = strategy

\* get_metadata goes on to the step named
Goto(step) == pc' = step /\ UNCHANGED << ret, source >>

\* get_metadata without the completeness shortcut
get_metadata_existing_always_looks_up ==
    /\ pc = "s1"
    /\ Goto("s2")
    /\ UNCHANGED << caches, flags, limiter, args, log, requests, pre, tmp, calls, history,
                    parser >>

\* Strategy 1: existing metadata already complete
get_metadata_existing ==
    /\ pc = "s1"
    /\ IF args.existing_metadata # EmptyRec
          /\ _is_metadata_complete(args.existing_metadata)
       THEN Return(args.existing_metadata, "existing")
       ELSE Goto("s2")
    /\ UNCHANGED << caches, flags, limiter, args, requests, log, pre, tmp, calls, history,
                    parser >>

\* the track number without zfill(2)
PaddedTrack_unpadded(n) == IF n # 0 THEN Str(n) ELSE ""

\* str(track_number).zfill(2) if track_number else ''
PaddedTrack(n) == IF n # NoTrack THEN ZFill2(Str(n)) ELSE ""

\* fallback_metadata before the merge
FallbackBase(a) == [title |-> a.title, artist |-> a.artist, album |-> a.album,
                    track_number |-> PaddedTrack(a.track_number)]

\* the fallback returned without the merge
MergeExisting_none(fallback, existing) == fallback

\* a merge in which every existing value replaces the fallback's
MergeExisting_existing_wins(fallback, existing) ==
    [k \in DOMAIN fallback \cup DOMAIN existing |->
        IF Get(existing, k) # "" THEN existing[k] ELSE fallback[k]]

\* the merge loop: an existing value fills a key the fallback lacks or has empty
MergeExisting(fallback, existing) ==
    [k \in DOMAIN fallback \cup { e \in DOMAIN existing : existing[e] # "" } |->
        IF Get(fallback, k) # "" THEN fallback[k]
        ELSE IF Get(existing, k) # "" THEN existing[k]
        ELSE fallback[k]]

\* An external call raises, or answers with one of the values of S.
Answers(S) == { [raised |-> TRUE, value |-> << >>] }
                  \cup { [raised |-> FALSE, value |-> v] : v \in S }

(***************************************************************************)
(* Acoustic Identification Client: audio_fingerprint_lookup.               *)
(***************************************************************************)
\* What the AcoustID service can answer: recordings ...
RecFull == [title |-> "Bohemian Rhapsody", id |-> "rec-1",
            artists |-> << [name |-> "Queen", id |-> "art-1"] >>,
            releases |-> << [title |-> "A Night at the Opera", id |-> "rel-1",
                             date |-> "1975", track |-> << "11" >>] >>]
RecNoRelease == [title |-> "Bohemian Rhapsody", id |-> "rec-2",
                 artists |-> << [name |-> "Queen", id |-> "art-1"] >>,
                 releases |-> << >>]
RecBare == [title |-> "", id |-> "rec-3", artists |-> << >>, releases |-> << >>]

\* ... in results with a score (percent)
AcoustidThreshold == 80       \* result.get('score', 0) > 0.8
AcoustidResponses ==
    { << >>,
      << [score |-> 90, recordings |-> << RecFull >>] >>,
      << [score |-> 90, recordings |-> << RecNoRelease >>] >>,
      << [score |-> 90, recordings |-> << RecBare >>] >>,
      << [score |-> 80, recordings |-> << RecFull >>] >>,
      << [score |-> 90, recordings |-> << >>],
         [score |-> 90, recordings |-> << RecNoRelease >>] >>,
      << [score |-> 50, recordings |-> << RecFull >>],
         [score |-> 90, recordings |-> << RecNoRelease >>] >> }

Duration == "354"

\* the metadata dict built from recordings[0] of an accepted result
AcoustidMetadata(result) ==
    LET recording == result.recordings[1]
        base == [title |-> recording.title,
                 musicbrainz_recordingid |-> recording.id,
                 duration |-> Duration,
                 acoustid_score |-> Str(result.score)]
        withArtist ==
            IF recording.artists # << >>
            THEN [artist |-> recording.artists[1].name,
                  musicbrainz_artistid |-> recording.artists[1].id] @@ base
            ELSE base
        release == recording.releases[1]
        withRelease ==
            IF recording.releases # << >>
            THEN [album |-> release.title, musicbrainz_albumid |-> release.id,
                  date |-> release.date] @@ withArtist
            ELSE withArtist
    IN IF recording.releases # << >> /\ release.track # << >>
       THEN Put(withRelease, "track_number", release.track[1])
       ELSE withRelease

\* a test that accepts a score of exactly 0.8
AcoustidAccepts_at_least(result) ==
    result.score >= AcoustidThreshold /\ result.recordings # << >>

\* the loop over results['results']: the first result above the threshold
\* that has recordings
AcoustidAccepts(result) ==
    result.score > AcoustidThreshold /\ result.recordings # << >>

AcoustidPick(results) ==
    IF \E i \in 1..Len(results) : AcoustidAccepts(results[i])
    THEN LET i == CHOOSE j \in 1..Len(results) :
                     /\ AcoustidAccepts(results[j])
                     /\ \A k \in 1..(j - 1) : ~ AcoustidAccepts(results[k])
         IN Some(AcoustidMetadata(results[i]))
    ELSE None

\* cache_key = f"fingerprint_{file_path.name}_{file_path.stat().st_size}"
FingerprintKey(f) == << f.name, f.size >>

\* a hit returned without the track number from the directory
BackfillTrack_never(m) == m

\* track number from directory if missing
BackfillTrack(m) ==
    IF args.track_number # NoTrack /\ Get(m, "track_number") = ""
    THEN Put(m, "track_number", PaddedTrack(args.track_number))
    ELSE m

\* a lookup whose no-match is not stored
AcousticReturns_unstored(res, fcache) ==
    IF IsSome(res)
    THEN /\ Return(BackfillTrack(res[1]), "acoustic")
         /\ fingerprint_cache' =
                Put(fcache, FingerprintKey(args.file_path[1]),
                    Some(BackfillTrack(res[1])))
    ELSE /\ Goto(IF args.is_generic THEN "s3" ELSE "s4c")
         /\ fingerprint_cache' = fingerprint_cache

\* get_metadata after audio_fingerprint_lookup has returned res, with the
\* fingerprint cache as the lookup left it.  The dict returned is the dict
\* the cache holds, so the backfill shows in the cache.
AcousticReturns(res, fcache) ==
    IF IsSome(res)
    THEN /\ Return(BackfillTrack(res[1]), "acoustic")
         /\ fingerprint_cache' =
                Put(fcache, FingerprintKey(args.file_path[1]),
                    Some(BackfillTrack(res[1])))
    ELSE /\ Goto(IF args.is_generic THEN "s3" ELSE "s4c")
         /\ fingerprint_cache' = fcache

\* a lookup that fingerprints the file again although its key is cached
AcousticEnter_uncached ==
    /\ log' = Append(log, "acoustic")
    /\ IF ~ args.file_path[1].exists THEN Goto("raised") ELSE Goto("fp_probe")
    /\ UNCHANGED << fingerprint_cache >>

\* the call of audio_fingerprint_lookup up to its cache check
AcousticEnter ==
    LET f == args.file_path[1]
    IN /\ log' = Append(log, "acoustic")
       /\ IF ~ f.exists
          THEN \* file_path.stat() raises, outside every try
               /\ Goto("raised")
               /\ UNCHANGED << fingerprint_cache >>
          ELSE IF FingerprintKey(f) \in DOMAIN fingerprint_cache
          THEN AcousticReturns(fingerprint_cache[FingerprintKey(f)], fingerprint_cache)
          ELSE /\ Goto("fp_probe")
               /\ UNCHANGED << fingerprint_cache >>

\* Strategy 2: generic file, audio fingerprinting first
get_metadata_generic_fingerprint ==
    /\ pc = "s2"
    /\ IF args.is_generic /\ args.file_path # None /\ fingerprint_enabled
       THEN AcousticEnter
       ELSE Goto("s3") /\ UNCHANGED << log, fingerprint_cache >>
    /\ UNCHANGED << cache, album_cache, lastfm_cache, flags, limiter, args, requests, pre, tmp,
                    calls, history,
                    parser >>

\* the fpcalc check: it runs, or it is not installed (the client disables
\* itself), or the check fails some other way (the outer handler)
ProbeOutcomes == { "ok", "missing", "error" }

\* a probe that leaves the client enabled when fpcalc is missing
FingerprintProbe_stays_enabled ==
    /\ pc = "fp_probe"
    /\ Sent
    /\ UNCHANGED trace
    /\ \E o \in ProbeOutcomes :
         IF o = "ok"
         THEN /\ Goto("fp_print")
              /\ UNCHANGED << fingerprint_cache, fingerprint_enabled, failures >>
         ELSE /\ fingerprint_enabled' = fingerprint_enabled
              /\ Raised(IF o = "missing" THEN "probe_missing" ELSE "probe", TRUE)
              /\ AcousticReturns(None, Put(fingerprint_cache,
                                          FingerprintKey(args.file_path[1]), None))
    /\ UNCHANGED << cache, album_cache, lastfm_cache, lastfm_enabled, limiter, args, pre,
                    tmp, calls, parser >>

FingerprintProbe ==
    /\ pc = "fp_probe"
    /\ Sent
    /\ UNCHANGED trace
    /\ \E o \in ProbeOutcomes :
         IF o = "ok"
         THEN /\ Goto("fp_print")
              /\ UNCHANGED << fingerprint_cache, fingerprint_enabled, failures >>
         ELSE /\ fingerprint_enabled' = IF o = "missing" THEN FALSE ELSE fingerprint_enabled
              /\ Raised(IF o = "missing" THEN "probe_missing" ELSE "probe", TRUE)
              /\ AcousticReturns(None, Put(fingerprint_cache,
                                          FingerprintKey(args.file_path[1]), None))
    /\ UNCHANGED << cache, album_cache, lastfm_cache, lastfm_enabled, limiter, args, pre,
                    tmp, calls, parser >>

\* acoustid.fingerprint_file: a fingerprint, an error naming fpcalc (the
\* client disables itself), another error, or no fingerprint
PrintOutcomes == { "ok", "fpcalc_error", "error", "empty" }

FingerprintFile ==
    /\ pc = "fp_print"
    /\ Sent
    /\ UNCHANGED trace
    /\ \E o \in PrintOutcomes :
         IF o = "ok"
         THEN /\ Goto("fp_lookup")
              /\ UNCHANGED << fingerprint_cache, fingerprint_enabled, failures >>
         ELSE /\ Raised("print", o # "empty")
              /\ fingerprint_enabled' =
                    IF o = "fpcalc_error" THEN FALSE ELSE fingerprint_enabled
              /\ AcousticReturns(None, Put(fingerprint_cache,
                                          FingerprintKey(args.file_path[1]), None))
    /\ UNCHANGED << cache, album_cache, lastfm_cache, lastfm_enabled, limiter, args, pre,
                    tmp, calls, parser >>

\* acoustid.lookup: it raises, or answers with results
FingerprintLookup ==
    /\ pc = "fp_lookup"
    /\ Sent
    /\ \E resp \in Answers(AcoustidResponses) :
         LET res == IF resp.raised THEN None ELSE AcoustidPick(resp.value)
         IN /\ Raised("lookup", resp.raised)
            /\ Heard("lookup", 0, resp)
            /\ AcousticReturns(res, Put(fingerprint_cache,
                                        FingerprintKey(args.file_path[1]), res))
    /\ UNCHANGED << cache, album_cache, lastfm_cache, flags, limiter, args, pre, tmp,
                    calls, parser >>

(***************************************************************************)
(* Catalog Track Client: search_musicbrainz_individual.                    *)
(***************************************************************************)
\* str.lower() of the query strings
Lower(s) ==
    CASE s = "" -> ""
      [] s = "Queen" -> "queen"
      [] s = "Opera" -> "opera"
      [] s = "Bohemian" -> "bohemian"
      [] s = "Track 01" -> "track 01"

\* SequenceMatcher(None, a.lower(), b.lower()).ratio(), in thousandths, of a
\* query string and a string of a catalog answer
Sim(query, answer) ==
    IF query = answer THEN 1000
    ELSE IF query = "" \/ answer = "" THEN 0
    ELSE CASE << query, answer >> = << "Bohemian", "Bohemian Rhapsody" >> -> 640
           [] << query, answer >> = << "Bohemian", "Other" >> -> 461
           [] << query, answer >> = << "Queen", "Someone" >> -> 333
           [] << query, answer >> = << "Queen", "Queen II" >> -> 769
           [] << query, answer >> = << "Opera", "A Night at the Opera" >> -> 400

\* Recordings the catalog can list.  credit is recording['artist-credit'],
\* releases is recording['release-list'] (empty: the key is missing).
CreditQueen == << [name |-> "Queen", artist |-> << [id |-> "art-1", name |-> "Queen"] >>] >>
RcExact == [id |-> "rec-1", title |-> "Bohemian", credit |-> CreditQueen,
            releases |-> << [id |-> "rel-1", title |-> "Opera", date |-> "1975"] >>]
RcNoAlbum == [id |-> "rec-2", title |-> "Bohemian", credit |-> CreditQueen,
              releases |-> << >>]
RcLoose == [id |-> "rec-3", title |-> "Bohemian Rhapsody", credit |-> CreditQueen,
            releases |-> << [id |-> "rel-2", title |-> "A Night at the Opera",
                             date |-> "1975-11-21"] >>]
RcOther == [id |-> "rec-4", title |-> "Other",
            credit |-> << [name |-> "Someone", artist |-> << >>] >>,
            releases |-> << >>]
\* a second recording of the same title, artist and release: it scores as
\* RcExact does
RcReissue == [id |-> "rec-5", title |-> "Bohemian", credit |-> CreditQueen,
              releases |-> << [id |-> "rel-4", title |-> "Opera", date |-> "2011"] >>]
RecordingLists == { << >>, << RcExact >>, << RcNoAlbum >>, << RcLoose >>, << RcOther >>,
                    << RcLoose, RcExact >>, << RcOther, RcLoose >>,
                    << RcExact, RcReissue >>, << RcReissue, RcExact >> }

NumStrategies == 4
\* one threshold for every formulation
MinThreshold_flat(i) == 6000

\* min_threshold = 0.8 if i == 0 else 0.6, in ten-thousandths
MinThreshold(i) == IF i = 1 THEN 8000 ELSE 6000

Max(S) == CHOOSE m \in S : \A n \in S : n <= m

\* total_score = title_score * 0.5 + artist_score * 0.3 + album_score * 0.2
RecordingScore(recording, artist, album, title) ==
    LET title_score == Sim(title, recording.title)
        artist_score == IF recording.credit # << >>
                        THEN Sim(artist, recording.credit[1].name) ELSE 0
        album_score ==
            IF album # "" /\ recording.releases # << >>
            THEN Max({ Sim(album, recording.releases[k].title) :
                         k \in 1..Len(recording.releases) })
            ELSE 0
    IN 5 * title_score + 3 * artist_score + 2 * album_score

\* a scan that lets a later candidate of equal score replace the best
BestIndex_last_seen(scores) ==
    IF \A i \in 1..Len(scores) : scores[i] <= 0 THEN 0
    ELSE CHOOSE i \in 1..Len(scores) :
             /\ \A j \in 1..Len(scores) : scores[j] <= scores[i]
             /\ \A j \in (i + 1)..Len(scores) : scores[j] < scores[i]

\* the scan "if total_score > best_score" from best_score = 0: index of the
\* first candidate with the highest score, 0 when no score is above 0
BestIndex(scores) ==
    IF \A i \in 1..Len(scores) : scores[i] <= 0 THEN 0
    ELSE CHOOSE i \in 1..Len(scores) :
             /\ \A j \in 1..Len(scores) : scores[j] <= scores[i]
             /\ \A j \in 1..(i - 1) : scores[j] < scores[i]

\* _extract_recording_metadata
_extract_recording_metadata(recording, fallback_artist, fallback_album, fallback_title) ==
    LET base == [musicbrainz_recordingid |-> recording.id,
                 title |-> recording.title,
                 artist |-> fallback_artist,
                 album |-> fallback_album]
        credited == recording.credit # << >> /\ recording.credit[1].artist # << >>
        withArtist ==
            IF credited
            THEN [musicbrainz_artistid |-> recording.credit[1].artist[1].id,
                  artist |-> recording.credit[1].artist[1].name] @@ base
            ELSE base
    IN IF recording.releases # << >>
       THEN [musicbrainz_albumid |-> recording.releases[1].id,
             album |-> recording.releases[1].title,
             date |-> recording.releases[1].date] @@ withArtist
       ELSE withArtist

\* cache_key = f"track_{artist}|{album}|{title}".lower()
TrackKey(a) == << Lower(a.artist), Lower(a.album), Lower(a.title) >>

\* a track hit that does not end the resolution
TrackReturns_falls_through(res) == Goto("s4b")

\* get_metadata after search_musicbrainz_individual has returned res
TrackReturns(res) ==
    IF IsSome(res) THEN Return(res[1], "track") ELSE Goto("s4b")

\* a step 4 that sends generic names on to Last.fm
get_metadata_track_generic_text ==
    /\ pc = "s4"
    /\ Goto(IF args.is_generic THEN "s4c" ELSE "s4b")
    /\ UNCHANGED << caches, flags, limiter, args, log, requests, pre, tmp, calls, history,
                    parser >>

\* a track search that asks the service again after a cached no-match
get_metadata_track_retries ==
    /\ pc = "s4"
    /\ IF args.is_generic
       THEN Goto("s6") /\ UNCHANGED << log, limiter, tmp >>
       ELSE IF args.artist = "" \/ args.title = ""
       THEN /\ log' = Append(log, "track")
            /\ TrackReturns(None)
            /\ UNCHANGED << limiter, tmp >>
       ELSE IF TrackKey(args) \in DOMAIN cache /\ IsSome(cache[TrackKey(args)])
       THEN /\ log' = Append(log, "track")
            /\ TrackReturns(cache[TrackKey(args)])
            /\ UNCHANGED << limiter, tmp >>
       ELSE /\ log' = Append(log, "track")
            /\ _rate_limit
            /\ Goto("tr_query")
            /\ tmp' = [i |-> 1]
    /\ UNCHANGED << caches, flags, args, requests, pre, calls, history, parser >>

\* a step 4 that searches the track client for generic names too
get_metadata_track_any_name ==
    /\ pc = "s4"
    /\ IF args.artist = "" \/ args.title = ""
       THEN /\ log' = Append(log, "track")
            /\ TrackReturns(None)
            /\ UNCHANGED << limiter, tmp >>
       ELSE IF TrackKey(args) \in DOMAIN cache
       THEN /\ log' = Append(log, "track")
            /\ TrackReturns(cache[TrackKey(args)])
            /\ UNCHANGED << limiter, tmp >>
       ELSE /\ log' = Append(log, "track")
            /\ _rate_limit
            /\ Goto("tr_query")
            /\ tmp' = [i |-> 1]
    /\ UNCHANGED << caches, flags, args, requests, pre, calls, history,
                    parser >>

\* Strategy 4: non-generic file, individual track search, up to the first
\* search request
get_metadata_track ==
    /\ pc = "s4"
    /\ IF args.is_generic
       THEN Goto("s6") /\ UNCHANGED << log, limiter, tmp >>
       ELSE IF args.artist = "" \/ args.title = ""
       THEN /\ log' = Append(log, "track")
            /\ TrackReturns(None)
            /\ UNCHANGED << limiter, tmp >>
       ELSE IF TrackKey(args) \in DOMAIN cache
       THEN /\ log' = Append(log, "track")
            /\ TrackReturns(cache[TrackKey(args)])
            /\ UNCHANGED << limiter, tmp >>
       ELSE /\ log' = Append(log, "track")
            /\ _rate_limit
            /\ Goto("tr_query")
            /\ tmp' = [i |-> 1]
    /\ UNCHANGED << caches, flags, args, requests, pre, calls, history,
                    parser >>

\* one pass of the loop over search_strategies: search_recordings with
\* formulation tmp.i raises or answers with a recording list
TrackQuery ==
    /\ pc = "tr_query"
    /\ \E resp \in Answers(RecordingLists) :
         LET i == tmp.i
             list == resp.value
             scores == [k \in 1..Len(list) |->
                          RecordingScore(list[k], args.artist, args.album, args.title)]
             best == BestIndex(scores)
             accepted == ~ resp.raised /\ best # 0 /\ scores[best] >= MinThreshold(i)
             metadata == _extract_recording_metadata(list[best], args.artist,
                                                     args.album, args.title)
             limited == ~ resp.raised /\ i < NumStrategies
         IN /\ Raised("tr_query", resp.raised)
            /\ Heard("tr_query", i, resp)
            /\ SentCatalog
            /\ IF accepted
               THEN /\ cache' = Put(cache, TrackKey(args), Some(metadata))
                    /\ TrackReturns(Some(metadata))
                    /\ UNCHANGED << limiter, tmp >>
               ELSE /\ IF limited THEN _rate_limit ELSE UNCHANGED limiter
                    /\ IF i < NumStrategies
                       THEN /\ tmp' = [i |-> i + 1]
                            /\ UNCHANGED << pc, ret, source, cache >>
                       ELSE /\ cache' = Put(cache, TrackKey(args), None)
                            /\ TrackReturns(None)
                            /\ tmp' = tmp
    /\ UNCHANGED << album_cache, fingerprint_cache, lastfm_cache, flags, args, pre, calls, parser >>

\* non-generic file: audio fingerprinting after the track search
get_metadata_fingerprint ==
    /\ pc = "s4b"
    /\ IF args.file_path # None /\ fingerprint_enabled
       THEN AcousticEnter
       ELSE Goto("s4c") /\ UNCHANGED << log, fingerprint_cache >>
    /\ UNCHANGED << cache, album_cache, lastfm_cache, flags, limiter, args, requests, pre, tmp,
                    calls, history,
                    parser >>

(***************************************************************************)
(* Catalog Album Client: search_album_tracks, search_track_by_position.    *)
(***************************************************************************)
\* Releases the catalog can list (credit '': no artist-credit) ...
RlExact == [id |-> "rel-1", title |-> "Opera", date |-> "1975", credit |-> "Queen"]
RlLoose == [id |-> "rel-2", title |-> "A Night at the Opera", date |-> "1975-11-21",
            credit |-> "Queen"]
RlNoCredit == [id |-> "rel-3", title |-> "Opera", date |-> "", credit |-> ""]
\* a second release of the same title and artist: it scores as RlExact does
RlReissue == [id |-> "rel-4", title |-> "Opera", date |-> "2011", credit |-> "Queen"]
ReleaseLists == { << >>, << RlExact >>, << RlLoose >>, << RlNoCredit >>,
                  << RlLoose, RlExact >>, << RlExact, RlReissue >>,
                  << RlReissue, RlExact >> }

\* ... and the tracks of a release as get_release_by_id lists them, over all
\* media: position, recording title and id
TkOne == [position |-> "1", title |-> "Death on Two Legs", recording |-> "rec-a"]
TkTwo == [position |-> "2", title |-> "Lazing", recording |-> "rec-b"]
TkUnplacedA == [position |-> "", title |-> "Death on Two Legs", recording |-> "rec-a"]
TkUnplacedB == [position |-> "", title |-> "", recording |-> "rec-b"]
ReleaseTracks == { << >>, << TkOne >>, << TkOne, TkTwo >>, << TkTwo, TkOne >>,
                   << TkUnplacedA, TkUnplacedB >>, << TkUnplacedA, TkOne >> }
\* the answer of get_release_by_id: with a 'release' or without
ReleaseDetails == { [found |-> FALSE, tracks |-> << >>] }
                      \cup { [found |-> TRUE, tracks |-> t] : t \in ReleaseTracks }

AlbumThreshold == 1400       \* best_score > 0.7, as a sum of two thousandths

\* album_score + artist_score of a release
ReleaseScore(release, artist, album) ==
    Sim(album, release.title) + Sim(artist, release.credit)

\* cache_key = f"album_{artist}|{album}".lower()
AlbumKey(a) == << Lower(a.artist), Lower(a.album) >>

\* track_info of one track of the release chosen
TrackInfo(track, release, artist) ==
    [position |-> track.position, title |-> track.title, length |-> "",
     artist |-> artist, album |-> release.title, date |-> release.date,
     musicbrainz_albumid |-> release.id,
     musicbrainz_recordingid |-> track.recording]

\* search_track_by_position on the track list search_album_tracks returned
PositionMatch(tracks, track_number) ==
    \E i \in 1..Len(tracks) :
        IntOk(tracks[i].position) /\ IntOf(tracks[i].position) = track_number

\* a lookup by list index alone
search_track_by_position_index_only(found, track_number) ==
    IF ~ IsSome(found) \/ found[1] = << >> THEN None
    ELSE IF 0 <= track_number - 1 /\ track_number - 1 < Len(found[1])
    THEN Some(found[1][track_number])
    ELSE None

search_track_by_position(found, track_number) ==
    IF ~ IsSome(found) \/ found[1] = << >> THEN None
    ELSE LET tracks == found[1]
         IN IF PositionMatch(tracks, track_number)
            THEN Some(tracks[CHOOSE i \in 1..Len(tracks) :
                        /\ IntOk(tracks[i].position)
                        /\ IntOf(tracks[i].position) = track_number
                        /\ \A j \in 1..(i - 1) :
                              ~ (IntOk(tracks[j].position)
                                 /\ IntOf(tracks[j].position) = track_number)])
            ELSE IF 0 <= track_number - 1 /\ track_number - 1 < Len(tracks)
            THEN Some(tracks[track_number])
            ELSE None

\* get_metadata after search_album_tracks has returned found
AlbumReturns(found) ==
    LET album_metadata == search_track_by_position(found, args.track_number)
    IN IF IsSome(album_metadata) THEN Return(album_metadata[1], "album")
       ELSE Goto("s4")

\* Strategy 3: generic file, album-based lookup, up to the first request
get_metadata_generic_album ==
    /\ pc = "s3"
    /\ IF args.is_generic /\ args.track_number # NoTrack /\ args.artist # ""
          /\ args.album # ""
       THEN IF AlbumKey(args) \in DOMAIN album_cache
            THEN /\ log' = Append(log, "album")
                 /\ AlbumReturns(album_cache[AlbumKey(args)])
                 /\ UNCHANGED limiter
            ELSE /\ log' = Append(log, "album")
                 /\ _rate_limit
                 /\ Goto("al_strict")
       ELSE Goto("s4") /\ UNCHANGED << log, limiter >>
    /\ UNCHANGED << caches, flags, args, requests, pre, tmp, calls, history,
                    parser >>

\* a ranking that accepts a best score of exactly 0.7
AlbumRank_at_least(list) ==
    LET scores == [k \in 1..Len(list) |-> ReleaseScore(list[k], args.artist, args.album)]
        best == BestIndex(scores)
    IN IF best # 0 /\ scores[best] >= AlbumThreshold
       THEN /\ _rate_limit
            /\ Goto("al_fetch")
            /\ tmp' = [release |-> list[best]]
            /\ UNCHANGED album_cache
       ELSE /\ album_cache' = Put(album_cache, AlbumKey(args), None)
            /\ AlbumReturns(None)
            /\ UNCHANGED << limiter, tmp >>

\* the scoring of a non-empty release list and what follows it
AlbumRank(list) ==
    LET scores == [k \in 1..Len(list) |-> ReleaseScore(list[k], args.artist, args.album)]
        best == BestIndex(scores)
    IN IF best # 0 /\ scores[best] > AlbumThreshold
       THEN /\ _rate_limit
            /\ Goto("al_fetch")
            /\ tmp' = [release |-> list[best]]
            /\ UNCHANGED album_cache
       ELSE /\ album_cache' = Put(album_cache, AlbumKey(args), None)
            /\ AlbumReturns(None)
            /\ UNCHANGED << limiter, tmp >>

\* search_releases with the quoted query: it raises or answers
AlbumSearchStrict ==
    /\ pc = "al_strict"
    /\ SentCatalog
    /\ \E resp \in Answers(ReleaseLists) :
         /\ Raised("al_strict", resp.raised)
         /\ Heard("al_strict", 0, resp)
         /\ IF resp.raised
            THEN /\ album_cache' = Put(album_cache, AlbumKey(args), None)
                 /\ AlbumReturns(None)
                 /\ UNCHANGED << limiter, tmp >>
            ELSE IF resp.value = << >>
            THEN /\ Goto("al_relaxed")
                 /\ UNCHANGED << album_cache, limiter, tmp >>
            ELSE AlbumRank(resp.value)
    /\ UNCHANGED << cache, fingerprint_cache, lastfm_cache, flags, args, pre, calls, parser >>

\* search_releases with the unquoted query, sent when the first found nothing
AlbumSearchRelaxed ==
    /\ pc = "al_relaxed"
    /\ SentCatalog
    /\ \E resp \in Answers(ReleaseLists) :
         /\ Raised("al_relaxed", resp.raised)
         /\ Heard("al_relaxed", 0, resp)
         /\ IF resp.raised \/ resp.value = << >>
            THEN /\ album_cache' = Put(album_cache, AlbumKey(args), None)
                 /\ AlbumReturns(None)
                 /\ UNCHANGED << limiter, tmp >>
            ELSE AlbumRank(resp.value)
    /\ UNCHANGED << cache, fingerprint_cache, lastfm_cache, flags, args, pre, calls, parser >>

\* get_release_by_id for the release chosen: it raises or answers
AlbumFetch ==
    /\ pc = "al_fetch"
    /\ SentCatalog
    /\ \E resp \in Answers(ReleaseDetails) :
         LET detail == resp.value
             tracks == [k \in 1..Len(detail.tracks) |->
                          TrackInfo(detail.tracks[k], tmp.release, args.artist)]
             found == IF ~ resp.raised /\ detail.found THEN Some(tracks) ELSE None
         IN /\ Raised("al_fetch", resp.raised)
            /\ Heard("al_fetch", 0, resp)
            /\ album_cache' = Put(album_cache, AlbumKey(args), found)
            /\ AlbumReturns(found)
    /\ UNCHANGED << cache, fingerprint_cache, lastfm_cache, flags, limiter, args, pre, tmp,
                    calls, parser >>

(***************************************************************************)
(* Text Search Client: lastfm_search.                                      *)
(***************************************************************************)
\* What Last.fm can answer for get_track(artist, title): the track's name,
\* its artist's name, its album's name ('' when it has none), its top tags.
LfExact == [name |-> "Bohemian", artist |-> "Queen", url |-> "lastfm/bohemian",
            album |-> "Opera", tags |-> "rock"]
LfNoAlbum == [name |-> "Bohemian Rhapsody", artist |-> "Queen",
              url |-> "lastfm/rhapsody", album |-> "", tags |-> ""]
LfOther == [name |-> "Other", artist |-> "Queen", url |-> "lastfm/other",
            album |-> "", tags |-> ""]
LastfmTracks == { LfExact, LfNoAlbum, LfOther }

\* What get_correction and the second get_track can answer: no correction
\* ('' or the artist itself), or a corrected artist and the track found there.
LastfmCorrections ==
    { [corrected |-> "", name |-> "", artist |-> ""],
      [corrected |-> "Queen", name |-> "", artist |-> ""],
      [corrected |-> "Queen II", name |-> "Bohemian", artist |-> "Queen II"],
      [corrected |-> "Queen II", name |-> "", artist |-> ""],
      [corrected |-> "Someone", name |-> "Bohemian", artist |-> "Someone"] }

LastfmThreshold == 1600      \* confidence > 0.8, as a sum of two thousandths

\* cache_key = f"lastfm_{artist}|{title}|{album}".lower()
LastfmKey(a) == << Lower(a.artist), Lower(a.title), Lower(a.album) >>

\* x or y
Or(x, y) == IF x # "" THEN x ELSE y

\* the metadata dict of the direct lookup
LastfmMetadata(track, artist, title, album) ==
    LET base == [title |-> Or(track.name, title),
                 artist |-> Or(track.artist, artist),
                 lastfm_url |-> track.url,
                 playcount |-> "0",
                 listeners |-> "0"]
        withAlbum ==
            IF track.album # ""
            THEN [album |-> track.album, lastfm_album_url |-> ""] @@ base
            ELSE IF album # "" THEN Put(base, "album", album)
            ELSE base
        withGenre == IF track.tags # "" THEN Put(withAlbum, "genre", track.tags)
                     ELSE withAlbum
    IN withGenre

LastfmConfidence(metadata, artist, title) ==
    Sim(title, metadata.title) + Sim(artist, metadata.artist)

\* the metadata dict of the lookup with the corrected artist
LastfmCorrected(c, title, album) ==
    [title |-> Or(c.name, title), artist |-> Or(c.artist, c.corrected),
     album |-> album, lastfm_corrected |-> "true"]

\* get_metadata after lastfm_search has returned res, with the Last.fm cache
\* as the search left it; the dict returned is the dict the cache holds
LastfmReturns(res, lcache) ==
    IF IsSome(res)
    THEN /\ Return(BackfillTrack(res[1]), "text")
         /\ lastfm_cache' = Put(lcache, LastfmKey(args), Some(BackfillTrack(res[1])))
    ELSE /\ Goto("s6")
         /\ lastfm_cache' = lcache

\* non-generic file: Last.fm with the known title, up to the first request
get_metadata_lastfm ==
    /\ pc = "s4c"
    /\ IF ~ lastfm_enabled
       THEN Goto("s6") /\ UNCHANGED << log, lastfm_cache >>
       ELSE /\ log' = Append(log, "text")
            /\ IF args.artist = "" \/ args.title = ""
               THEN LastfmReturns(None, lastfm_cache)
               ELSE IF LastfmKey(args) \in DOMAIN lastfm_cache
               THEN LastfmReturns(lastfm_cache[LastfmKey(args)], lastfm_cache)
               ELSE Goto("lf_track") /\ UNCHANGED << lastfm_cache >>
    /\ UNCHANGED << cache, album_cache, fingerprint_cache, flags, limiter, args, requests, pre, tmp,
                    calls, history,
                    parser >>

\* get_track and the reads of the track: an error, or a track
LastfmTrack ==
    /\ pc = "lf_track"
    /\ Sent
    /\ \E resp \in Answers(LastfmTracks) :
         LET metadata == LastfmMetadata(resp.value, args.artist, args.title, args.album)
             confidence == LastfmConfidence(metadata, args.artist, args.title)
             full == Put(metadata, "lastfm_confidence", Str(confidence \div 2))
         IN /\ Raised("lf_track", resp.raised)
            /\ Heard("lf_track", 0, resp)
            /\ IF ~ resp.raised /\ confidence > LastfmThreshold
               THEN LastfmReturns(Some(full),
                                  Put(lastfm_cache, LastfmKey(args), Some(full)))
               ELSE Goto("lf_correct") /\ UNCHANGED << lastfm_cache >>
    /\ UNCHANGED << cache, album_cache, fingerprint_cache, flags, limiter, args, pre, tmp,
                    calls, parser >>

\* the artist correction: an error, or an answer
LastfmCorrection ==
    /\ pc = "lf_correct"
    /\ Sent
    /\ \E resp \in Answers(LastfmCorrections) :
         LET c == resp.value
             found == ~ resp.raised /\ c.corrected # "" /\ c.corrected # args.artist
             res == IF found THEN Some(LastfmCorrected(c, args.title, args.album))
                    ELSE None
         IN /\ Raised("lf_correct", resp.raised)
            /\ Heard("lf_correct", 0, resp)
            /\ LastfmReturns(res, Put(lastfm_cache, LastfmKey(args), res))
    /\ UNCHANGED << cache, album_cache, fingerprint_cache, flags, limiter, args, pre, tmp,
                    calls, parser >>

\* Strategy 6: fallback to directory structure
get_metadata_fallback ==
    /\ pc = "s6"
    /\ Return(MergeExisting(FallbackBase(args), args.existing_metadata), "fallback")
    /\ UNCHANGED << caches, flags, limiter, args, requests, log, pre, tmp, calls, history,
                    parser >>

\* the steps of a get_metadata call
Resolve ==
    \/ get_metadata_existing
    \/ get_metadata_generic_fingerprint
    \/ FingerprintProbe
    \/ FingerprintFile
    \/ FingerprintLookup
    \/ get_metadata_generic_album
    \/ AlbumSearchStrict
    \/ AlbumSearchRelaxed
    \/ AlbumFetch
    \/ get_metadata_track
    \/ TrackQuery
    \/ get_metadata_fingerprint
    \/ get_metadata_lastfm
    \/ LastfmTrack
    \/ LastfmCorrection
    \/ get_metadata_fallback

\* the steps of a get_metadata call, and its end
Steps == Resolve \/ Finish

Next ==
    \/ Begin
    \/ get_metadata_existing
    \/ get_metadata_generic_fingerprint
    \/ FingerprintProbe
    \/ FingerprintFile
    \/ FingerprintLookup
    \/ get_metadata_generic_album
    \/ AlbumSearchStrict
    \/ AlbumSearchRelaxed
    \/ AlbumFetch
    \/ get_metadata_track
    \/ TrackQuery
    \/ get_metadata_fingerprint
    \/ get_metadata_lastfm
    \/ LastfmTrack
    \/ LastfmCorrection
    \/ get_metadata_fallback
    \/ Finish

Spec == Init /\ [][Next]_vars

(***************************************************************************)
(* A run in which the history of failed requests is kept: one artist, one  *)
(* title, one track number, no tags, and two files that exist.             *)
(***************************************************************************)
MaxOutageCalls == 2
OutageArgSets == [artist : { "Queen" }, album : Albums, title : { "Bohemian" },
                  track_number : { 1 }, is_generic : BOOLEAN,
                  file_path : { None, Some(FileA), Some(FileB) },
                  existing_metadata : { ExNone }]
InitOutage == Construct(TRUE, FALSE)
BeginOutage == Call(OutageArgSets, MaxOutageCalls)
NextOutage == BeginOutage \/ Steps
SpecOutage == InitOutage /\ [][NextOutage]_vars

(***************************************************************************)
(* A run of one call in which the answered requests are kept in trace.     *)
(***************************************************************************)
MaxTraceCalls == 1
TraceArgSets == [artist : { "", "Queen" }, album : { "", "Opera" }, title : { "Bohemian" },
                 track_number : { NoTrack, 1 }, is_generic : BOOLEAN,
                 file_path : { None, Some(FileA) },
                 existing_metadata : { ExNone }]
InitTrace == Construct(FALSE, TRUE)
BeginTrace == Call(TraceArgSets, MaxTraceCalls)
NextTrace == BeginTrace \/ Steps
SpecTrace == InitTrace /\ [][NextTrace]_vars

(***************************************************************************)
(* Path parser: _extract_track_number and parse_directory_structure, on    *)
(* the characters of the path's segments.                                  *)
(***************************************************************************)
\* ''.join(cs)
RECURSIVE Join(_)
Join(cs) == IF cs = << >> THEN "" ELSE cs[1] \o Join(Tail(cs))

\* int() of a run of decimal digits
DigitValue(c) == (CHOOSE i \in 1..Len(DigitStr) : DigitStr[i] = c) - 1
RECURSIVE IntOfDigits(_)
IntOfDigits(ds) ==
    IF ds = << >> THEN 0
    ELSE 10 * IntOfDigits(SubSeq(ds, 1, Len(ds) - 1)) + DigitValue(ds[Len(ds)])

Leftmost(S) == CHOOSE i \in S : \A j \in S : i <= j

\* Path.stem: the name up to its last dot, unless that dot is first or last
LastDot(name) ==
    LET D == { i \in 1..Len(name) : name[i] = "." }
    IN IF D = { } THEN 0 ELSE CHOOSE i \in D : \A j \in D : j <= i
Stem(name) ==
    LET i == LastDot(name)
    IN IF 1 < i /\ i < Len(name) THEN SubSeq(name, 1, i - 1) ELSE name

\* track[\s\-_]*(\d+) matches at i
TrackNumberAt(s, i) ==
    /\ HasAt(s, i, W_track)
    /\ LET j == Run(s, i + Len(W_track), Sep3) IN Run(s, j, Digits) > j
\* (\d+)[\s\-_]*track matches at i
NumberTrackAt(s, i) ==
    /\ s[i] \in Digits
    /\ HasAt(s, Run(s, Run(s, i, Digits), Sep3), W_track)

\* _extract_track_number: the three patterns in order, re.search on the
\* lower-cased name, int(match.group(1)); None when no pattern matches
_extract_track_number(filename) ==
    LET s == LowerSeq(filename)
        d == Run(s, 1, Digits)
        T == { i \in 1..Len(s) : TrackNumberAt(s, i) }
        N == { i \in 1..Len(s) : NumberTrackAt(s, i) }
    IN IF d > 1 THEN Some(IntOfDigits(SubSeq(s, 1, d - 1)))
       ELSE IF T # { }
       THEN LET j == Run(s, Leftmost(T) + Len(W_track), Sep3)
            IN Some(IntOfDigits(SubSeq(s, j, Run(s, j, Digits) - 1)))
       ELSE IF N # { }
       THEN Some(IntOfDigits(SubSeq(s, Leftmost(N), Run(s, Leftmost(N), Digits) - 1)))
       ELSE None

\* index after a match of ^(\d+[\s\-_\.]*)|(track[\s\-_]*\d*[\s\-_]*) at i,
\* ignoring case; i when there is no match at i
CleanMatchEnd(s, i) ==
    LET l == LowerSeq(s)
        d == Run(l, 1, Digits)
    IN IF i = 1 /\ d > 1 THEN Run(l, d, Sep4)
       ELSE IF HasAt(l, i, W_track)
       THEN Run(l, Run(l, Run(l, i + Len(W_track), Sep3), Digits), Sep3)
       ELSE i
\* re.sub of that pattern by ''
RECURSIVE SubClean(_, _)
SubClean(s, i) ==
    IF i > Len(s) THEN << >>
    ELSE IF CleanMatchEnd(s, i) > i THEN SubClean(s, CleanMatchEnd(s, i))
    ELSE << s[i] >> \o SubClean(s, i + 1)

\* \w and \b
WordChars == Digits \cup { UpperCase[i] : i \in 1..Len(UpperCase) }
                    \cup { LowerCase[i] : i \in 1..Len(LowerCase) } \cup { "_" }
Boundary(s, i) ==
    (i > 1 /\ i - 1 <= Len(s) /\ s[i - 1] \in WordChars)
        # (i <= Len(s) /\ s[i] \in WordChars)

\* year_patterns, in order
NumYearPatterns == 3
Centuries == { << "1", "9" >>, << "2", "0" >> }
YearDigits == 4
\* \b(19|20)\d{2}\b matches at i
BareYearAt(s, i) ==
    /\ i + YearDigits - 1 <= Len(s)
    /\ SubSeq(s, i, i + 1) \in Centuries
    /\ \A k \in (i + 2)..(i + YearDigits - 1) : s[k] \in Digits
    /\ Boundary(s, i) /\ Boundary(s, i + YearDigits)
\* \((\d{4})\) and \[(\d{4})\] match at i
EnclosedYearAt(s, i, open, close) ==
    /\ i + YearDigits + 1 <= Len(s)
    /\ s[i] = open /\ s[i + YearDigits + 1] = close
    /\ \A k \in (i + 1)..(i + YearDigits) : s[k] \in Digits
YearAt(s, i, p) ==
    CASE p = 1 -> BareYearAt(s, i)
      [] p = 2 -> EnclosedYearAt(s, i, "(", ")")
      [] p = 3 -> EnclosedYearAt(s, i, "[", "]")
YearMatchLen(p) == IF p = 1 THEN YearDigits ELSE YearDigits + 2
\* year_match.group(1): every pattern holds a '(' , so group(0) is never taken
YearGroup(s, i, p) ==
    IF p = 1 THEN SubSeq(s, i, i + 1) ELSE SubSeq(s, i + 1, i + YearDigits)
\* re.sub(pattern, '', album_part)
RECURSIVE SubYear(_, _, _)
SubYear(s, i, p) ==
    IF i > Len(s) THEN << >>
    ELSE IF YearAt(s, i, p) THEN SubYear(s, i + YearMatchLen(p), p)
    ELSE << s[i] >> \o SubYear(s, i + 1, p)

\* re.sub(r'\s*[-_\(\)\[\]]\s*', ' ', album_clean)
Brackets == { "-", "_", "(", ")", "[", "]" }
SeparatorEnd(s, i) ==
    LET j == Run(s, i, Space)
    IN IF j <= Len(s) /\ s[j] \in Brackets THEN Run(s, j + 1, Space) ELSE i
RECURSIVE SubSeparators(_, _)
SubSeparators(s, i) ==
    IF i > Len(s) THEN << >>
    ELSE IF SeparatorEnd(s, i) > i THEN << " " >> \o SubSeparators(s, SeparatorEnd(s, i))
    ELSE << s[i] >> \o SubSeparators(s, i + 1)

\* the for/else over year_patterns: year and album from the last directory
AlbumAndYear(album_part) ==
    LET Found(p) == { i \in 1..Len(album_part) : YearAt(album_part, i, p) }
        P == { p \in 1..NumYearPatterns : Found(p) # { } }
    IN IF P = { } THEN [album |-> album_part, year |-> << >>]
       ELSE LET p == Leftmost(P)
            IN [year |-> YearGroup(album_part, Leftmost(Found(p)), p),
                album |-> Strip(SubSeparators(Strip(SubYear(album_part, 1, p)), 1))]

VariousNames == { Chars("various artists"), Chars("various"),
                  Chars("compilation"), Chars("va") }
ArtistOf(artist_part) ==
    IF LowerSeq(artist_part) \in VariousNames THEN Chars("Various Artists")
    ELSE artist_part

\* parse_directory_structure; path.dirs are relative_path.parts[:-1] and
\* path.name is the file's name
parse_directory_structure(path) ==
    LET parts == path.dirs
        filename == Stem(Chars(path.name))
        is_generic == IsGenericChars(filename)
        track_num == _extract_track_number(filename)
        numbered == IsSome(track_num) /\ track_num[1] # 0
        clean_title == Strip(SubClean(filename, 1))
        title == IF numbered /\ is_generic /\ clean_title # << >>
                 THEN clean_title ELSE filename
        found == IF Len(parts) >= 1 THEN AlbumAndYear(Chars(parts[Len(parts)]))
                 ELSE [album |-> << >>, year |-> << >>]
        artist == IF Len(parts) >= 2 THEN ArtistOf(Chars(parts[Len(parts) - 1]))
                  ELSE << >>
    IN [title |-> Join(Strip(title)),
        artist |-> Join(Strip(artist)),
        album |-> Join(Strip(found.album)),
        year |-> Join(Strip(found.year)),
        track_number |-> IF numbered THEN ZFill2(Str(track_num[1])) ELSE "",
        is_generic |-> is_generic]

\* the files of a source tree, by the directories between the root and the file
FileNames ==
    { "04 Bohemian Rhapsody.wav",
      "Bohemian Rhapsody.wav",
      "Track 01.wav",
      "01.wav",
      "7 - Track.wav",
      "00 Intro.wav",
      "12_Song.wav",
      "Untitled.wav",
      "track05.wav",
      "05. Track05.wav",
      "Intro",
      "Love 2 Track.wav",
      "Pista 03.wav",
      "Audio 01.wav",
      "Song 01.wav",
      "TRACK 01.wav" }
AlbumDirs ==
    { "A Night at the Opera (1975)",
      "Opera",
      "Opera (1875)",
      "[2001] Live",
      "1975 - Opera",
      "Opera_1975",
      "Live - 2001 (1999)",
      "Opera [1875]" }
ArtistDirs == { "Queen", "Various", "VA", "Compilation" }
TopDirs == { "Rock" }
Paths ==
    [dirs : { << >> } \cup { << b >> : b \in AlbumDirs }
              \cup { << a, b >> : a \in ArtistDirs, b \in AlbumDirs }
              \cup { << g, a, b >> : g \in TopDirs, a \in ArtistDirs, b \in AlbumDirs },
     name : FileNames]

\* parse_directory_structure is applied to one file of the tree
ParseFile ==
    /\ path_in = None
    /\ \E path \in Paths :
          /\ path_in' = Some(path)
          /\ parsed' = Some(parse_directory_structure(path))
    /\ UNCHANGED << caches, flags, limiter, pc, args, ret, source, log, requests, pre,
                    tmp, calls, history, run >>

NextParse == ParseFile
SpecParse == Init /\ [][NextParse]_vars

(***************************************************************************)
(* The converter: main, convert_all and process_single_file around the     *)
(* lookup.                                                                 *)
(***************************************************************************)
\* Path.suffix: the name from its last dot on, unless that dot is first or last
Suffix(name) ==
    LET i == LastDot(name)
    IN IF 1 < i /\ i < Len(name) THEN SubSeq(name, i, Len(name)) ELSE << >>
\* str.endswith
EndsWith(cs, w) ==
    Len(cs) >= Len(w) /\ SubSeq(cs, Len(cs) - Len(w) + 1, Len(cs)) = w

\* The files of a source tree, in the order os.walk lists them.
WavNamed == [dirs |-> << "Queen", "Opera" >>, name |-> "Bohemian.wav",
             path |-> "Queen/Opera/Bohemian.wav", size |-> "1000"]
WavGeneric == [dirs |-> << "Queen", "Opera (1875)" >>, name |-> "Track 01.wav",
               path |-> "Queen/Opera (1875)/Track 01.wav", size |-> "2000"]
FlacNamed == [dirs |-> << "Queen", "Opera" >>, name |-> "Bohemian.flac",
              path |-> "Queen/Opera/Bohemian.flac", size |-> "3000"]
Cover == [dirs |-> << "Queen", "Opera" >>, name |-> "cover.jpg",
          path |-> "Queen/Opera/cover.jpg", size |-> "10"]
\* a file of the same name and size as WavGeneric in another directory
WavGenericTwin == [dirs |-> << "Queen", "Opera" >>, name |-> "Track 01.wav",
                   path |-> "Queen/Opera/Track 01.wav", size |-> "2000"]
SourceFiles == { WavNamed, WavGeneric, WavGenericTwin, FlacNamed, Cover }
\* a source tree holds at most MaxFiles files, each once
MaxFiles == 2
Trees ==
    UNION { { t \in [1..n -> SourceFiles] : \A i, j \in 1..n : t[i] = t[j] => i = j } :
            n \in 0..MaxFiles }

\* find_audio_files: the files whose lower-cased name ends with .wav or .flac
IsAudio(f) ==
    \/ EndsWith(LowerSeq(Chars(f.name)), Chars(".wav"))
    \/ EndsWith(LowerSeq(Chars(f.name)), Chars(".flac"))
find_audio_files(tree) == SelectSeq(tree, IsAudio)

\* The tags get_existing_metadata reads from the output file: none, a
\* complete record, or a record with an identifier and a generic title.
ExistingTags == { ExNone, ExComplete, ExGenericTitle }

\* main(): the converter is built and convert_all has listed the files, or
\* __init__ raises (no source path, no ffmpeg) and the process exits with 1
Main ==
    /\ run.stage = "new"
    /\ \/ \E tree \in Trees : \E enabled \in BOOLEAN :
             run' = [run EXCEPT !.stage = "walking", !.enable_metadata = enabled,
                                !.files = find_audio_files(tree),
                                !.listed = find_audio_files(tree)]
       \/ run' = [run EXCEPT !.stage = "aborted", !.exit = Some(1)]
    /\ UNCHANGED << caches, flags, limiter, pc, args, ret, source, log, requests, pre,
                    tmp, calls, history, path_in, parsed >>

\* process_single_file has returned False for the file at the head
FileFailed(r, cause) ==
    [r EXCEPT !.stage = "walking", !.files = Tail(@), !.file = None,
                !.stats.failed = @ + 1,
                !.cause = cause, !.produced = "", !.counted = "", !.written = FALSE,
                !.tags = None]

\* what can happen before the lookup: mkdir raises; the conversion fails or
\* succeeds (WAV); the copy raises or the file is there (FLAC)
StartOutcomes(wav) ==
    IF wav THEN { "setup_error", "convert_failed", "converted" }
    ELSE { "setup_error", "copy_error", "copied" }

\* process_single_file from its entry to the call of get_metadata, or to its
\* return when the file fails or metadata is disabled.  gone: the source file
\* is removed once it has been converted or copied.
ProcessStart ==
    /\ run.stage = "walking" /\ run.files # << >> /\ pc = "idle"
    /\ LET f == Head(run.files)
           entered == [run EXCEPT !.walked = Append(@, f.path)]
           wav == LowerSeq(Suffix(Chars(f.name))) = Chars(".wav")
           skipped == IF wav THEN 0 ELSE 1
           dir_metadata == parse_directory_structure([dirs |-> f.dirs, name |-> f.name])
           track_number == IF dir_metadata.track_number # ""
                           THEN IntOf(dir_metadata.track_number) ELSE NoTrack
       IN \E o \in StartOutcomes(wav) :
            IF o \in { "setup_error", "convert_failed", "copy_error" }
            THEN /\ run' = FileFailed(entered, o)
                 /\ UNCHANGED << pc, args, ret, source, log, requests, pre, tmp, calls,
                                 path_in, parsed >>
            ELSE IF ~ run.enable_metadata
            THEN /\ run' = [entered EXCEPT !.files = Tail(@),
                                       !.stats.converted = @ + 1,
                                       !.stats.skipped_flac = @ + skipped,
                                       !.cause = "", !.produced = "", !.counted = "",
                                       !.written = FALSE, !.tags = None]
                 /\ UNCHANGED << pc, args, ret, source, log, requests, pre, tmp, calls,
                                 path_in, parsed >>
            ELSE \E existing \in ExistingTags : \E gone \in BOOLEAN :
                 /\ run' = [entered EXCEPT !.stage = "resolving", !.file = Some(f),
                                       !.stats.skipped_flac = @ + skipped]
                 /\ path_in' = Some([dirs |-> f.dirs, name |-> f.name])
                 /\ parsed' = Some(dir_metadata)
                 /\ args' = [artist |-> dir_metadata.artist,
                             album |-> dir_metadata.album,
                             title |-> dir_metadata.title,
                             track_number |-> track_number,
                             is_generic |-> dir_metadata.is_generic,
                             file_path |-> Some([path |-> f.path, name |-> f.name,
                                                 size |-> f.size, exists |-> ~ gone]),
                             existing_metadata |-> existing]
                 /\ pc' = "s1"
                 /\ ret' = None
                 /\ source' = ""
                 /\ log' = << >>
                 /\ requests' = 0
                 /\ tmp' = << >>
                 /\ calls' = calls + 1
                 /\ pre' = Snapshot
    /\ UNCHANGED << caches, flags, limiter, history >>

\* embed_metadata: the tags written from a record.  tag_mapping is walked in
\* order, every non-empty value assigned to its tag: 'date' and 'year' both
\* go to DATE, 'year' last.
TagMapping == << << "title", "TITLE" >>, << "artist", "ARTIST" >>, << "album", "ALBUM" >>,
                 << "date", "DATE" >>, << "year", "DATE" >>,
                 << "track_number", "TRACKNUMBER" >>, << "genre", "GENRE" >>,
                 << "albumartist", "ALBUMARTIST" >>, << "composer", "COMPOSER" >>,
                 << "comment", "COMMENT" >>,
                 << "musicbrainz_recordingid", "MUSICBRAINZ_TRACKID" >>,
                 << "musicbrainz_albumid", "MUSICBRAINZ_ALBUMID" >>,
                 << "musicbrainz_artistid", "MUSICBRAINZ_ARTISTID" >>,
                 << "musicbrainz_releasegroupid", "MUSICBRAINZ_RELEASEGROUPID" >> >>
RECURSIVE EmbedFrom(_, _, _)
EmbedFrom(metadata, i, tags) ==
    IF i > Len(TagMapping) THEN tags
    ELSE EmbedFrom(metadata, i + 1,
                   IF Get(metadata, TagMapping[i][1]) # ""
                   THEN Put(tags, TagMapping[i][2], Get(metadata, TagMapping[i][1]))
                   ELSE tags)
embed_metadata(metadata) == EmbedFrom(metadata, 1, EmptyRec)

\* the counter of self.stats a record is counted under
Counter(metadata, same) ==
    IF same THEN "metadata_complete"
    ELSE IF Get(metadata, "acoustid_score") # "" THEN "metadata_fingerprint"
    ELSE IF Get(metadata, "lastfm_confidence") # "" THEN "metadata_lastfm"
    ELSE IF Get(metadata, "musicbrainz_recordingid") # "" THEN "metadata_found"
    ELSE "metadata_fallback"

\* a comparison with a copy of the existing tags, the year and track number
\* of the path not showing in them
SameAsExisting_by_value(metadata) == metadata = args.existing_metadata
\* metadata == existing_metadata: the record compared with the tags read
\* from the file; the record of the completeness shortcut is that very
\* dict, the two assignments made on it included
SameAsExisting(metadata) == source = "existing" \/ metadata = args.existing_metadata

\* the index search_track_by_position takes its track from
PositionIndex(tracks, track_number) ==
    IF PositionMatch(tracks, track_number)
    THEN CHOOSE i \in 1..Len(tracks) :
            /\ IntOk(tracks[i].position) /\ IntOf(tracks[i].position) = track_number
            /\ \A j \in 1..(i - 1) :
                  ~ (IntOk(tracks[j].position) /\ IntOf(tracks[j].position) = track_number)
    ELSE track_number

\* process_single_file after get_metadata: the exception handler, or year and
\* track number from the path, the statistics, embed_metadata (its failure
\* is absorbed) and the return; convert_all counts the file.  The record is
\* the dict the client's cache holds, so the two assignments show there.
ProcessReturn ==
    /\ run.stage = "resolving" /\ pc \in { "done", "raised" }
    /\ IF pc = "raised"
       THEN /\ run' = FileFailed(run, "lookup")
            /\ UNCHANGED caches
       ELSE LET dir_metadata == parsed[1]
                existing_metadata == args.existing_metadata
                withYear == IF dir_metadata.year # ""
                            THEN Put(ret[1], "year", dir_metadata.year) ELSE ret[1]
                metadata == IF dir_metadata.track_number # ""
                            THEN Put(withYear, "track_number", dir_metadata.track_number)
                            ELSE withYear
                same == SameAsExisting(metadata)
                counter == Counter(metadata, same)
                should_update_metadata == existing_metadata = EmptyRec \/ ~ same
                held == album_cache[AlbumKey(args)][1]
            IN /\ \E written \in (IF should_update_metadata THEN BOOLEAN ELSE { FALSE }) :
                    run' = [run EXCEPT !.stage = "walking", !.files = Tail(@),
                                       !.file = None,
                                       !.stats = [@ EXCEPT ![counter] = @ + 1,
                                                           !.converted = @ + 1],
                                       !.cause = "", !.produced = source,
                                       !.counted = counter, !.resolved = @ + 1,
                                       !.written = written,
                                       !.tags = IF written
                                                THEN Some(embed_metadata(metadata))
                                                ELSE None]
               /\ cache' = IF source = "track"
                           THEN Put(cache, TrackKey(args), Some(metadata)) ELSE cache
               /\ fingerprint_cache' =
                     IF source = "acoustic"
                     THEN Put(fingerprint_cache, FingerprintKey(args.file_path[1]),
                              Some(metadata))
                     ELSE fingerprint_cache
               /\ lastfm_cache' = IF source = "text"
                                  THEN Put(lastfm_cache, LastfmKey(args), Some(metadata))
                                  ELSE lastfm_cache
               /\ album_cache' =
                     IF source = "album"
                     THEN Put(album_cache, AlbumKey(args),
                              Some([held EXCEPT
                                      ![PositionIndex(held, args.track_number)] = metadata]))
                     ELSE album_cache
    /\ pc' = "idle"
    /\ args' = NoArgs
    /\ ret' = None
    /\ source' = ""
    /\ log' = << >>
    /\ requests' = 0
    /\ tmp' = << >>
    /\ now' = now - last_request_time
    /\ last_request_time' = 0
    /\ pre' = [Snapshot EXCEPT !.last_request_time = 0]
    /\ failures' = [failures EXCEPT !.now = { },
                                    !.before = @ \cup Outages(failures.now)]
    /\ last_catalog_time' = last_catalog_time - last_request_time
    /\ gap' = RateLimitDelay
    /\ trace' = [trace EXCEPT !.seq = << >>]
    /\ UNCHANGED << flags, calls, path_in, parsed >>

\* an exit status that does not look at the failed count
ExitStatus_success(failed) == 0
\* sys.exit(0 if failed == 0 else 1)
ExitStatus(failed) == IF failed = 0 THEN 0 ELSE 1
\* convert_all returns its counts and main() exits
Exit ==
    /\ run.stage = "walking" /\ run.files = << >> /\ pc = "idle"
    /\ run' = [run EXCEPT !.stage = "exited",
                          !.exit = Some(ExitStatus(run.stats.failed))]
    /\ UNCHANGED << caches, flags, limiter, pc, args, ret, source, log, requests, pre,
                    tmp, calls, history, path_in, parsed >>

\* KeyboardInterrupt between two files: exit status 130
InterruptStatus == 130
Interrupt ==
    /\ run.stage = "walking" /\ run.files # << >> /\ pc = "idle"
    /\ run' = [run EXCEPT !.stage = "interrupted", !.exit = Some(InterruptStatus)]
    /\ UNCHANGED << caches, flags, limiter, pc, args, ret, source, log, requests, pre,
                    tmp, calls, history, path_in, parsed >>

NextRun == Main \/ ProcessStart \/ Resolve \/ ProcessReturn \/ Interrupt \/ Exit
SpecRun == Init /\ [][NextRun]_vars

(***************************************************************************)
(* A run of one call whose existing tags range over every combination of   *)
(* title, artist, album and the four MusicBrainz identifiers a record can  *)
(* carry ('' stands for a tag the file does not have).                     *)
(***************************************************************************)
IdFields == { "musicbrainz_recordingid", "musicbrainz_trackid",
              "musicbrainz_albumid", "musicbrainz_artistid" }
TagRecord(title, artist, album, ids) ==
    LET text == [title |-> title, artist |-> artist, album |-> album]
        present == { f \in DOMAIN text : text[f] # "" }
    IN [k \in present \cup ids |-> IF k \in ids THEN "mbid-tagged" ELSE text[k]]
TaggedRecords ==
    { TagRecord(t, a, b, ids) : t \in { "", "Tagged", "Track 01" },
                                a \in { "", "Tagged Artist" },
                                b \in { "", "Tagged Album" },
                                ids \in SUBSET IdFields }
MaxTaggedCalls == 1
TaggedArgSets == [artist : { "Queen" }, album : { "Opera" }, title : { "Bohemian" },
                  track_number : { 1 }, is_generic : BOOLEAN,
                  file_path : { None, Some(FileA) },
                  existing_metadata : TaggedRecords]
BeginTagged == Call(TaggedArgSets, MaxTaggedCalls)
NextTagged == BeginTagged \/ Steps
SpecTagged == Init /\ [][NextTagged]_vars

(***************************************************************************)
(* Properties of get_metadata.                                             *)
(***************************************************************************)
Range(q) == { q[i] : i \in 1..Len(q) }
Returned == pc = "done"
Record == ret[1]
Existing == args.existing_metadata
Complete == Existing # EmptyRec /\ _is_metadata_complete(Existing)

\* the track search of this call's query has a record in its cache
TrackHit == /\ args.artist # "" /\ args.title # ""
            /\ TrackKey(args) \in DOMAIN cache
            /\ IsSome(cache[TrackKey(args)])
\* the fingerprint lookup of this call's file has a record in its cache
AcousticHit == /\ args.file_path # None
               /\ args.file_path[1].exists
               /\ FingerprintKey(args.file_path[1]) \in DOMAIN fingerprint_cache
               /\ IsSome(fingerprint_cache[FingerprintKey(args.file_path[1])])

\* C1 as claimed: every record get_metadata returns has a non-empty title
\* and a non-empty artist.
C1_TitleAndArtistAlways ==
    Returned => Get(Record, "title") # "" /\ Get(Record, "artist") # ""

\* C1, amended: get_metadata returns a record, and in one returned by the
\* completeness shortcut or the final fallback the title, and likewise the
\* artist, is non-empty exactly when the path-derived value or the existing
\* tag is non-empty.
C1_FallbackTitleAndArtist ==
    Returned =>
        /\ IsSome(ret)
        /\ source \in { "existing", "fallback" } =>
              \A k \in { "title", "artist" } :
                  Get(Record, k) # "" <=> (args[k] # "" \/ Get(Existing, k) # "")

C1_Witness ==
    /\ Returned /\ source = "fallback"
    /\ args.artist = ""
    /\ Get(Record, "artist") = "Tagged Artist"

\* C2: with complete existing metadata get_metadata returns that very record,
\* sends no request, invokes no client and leaves the caches, the
\* fingerprint switch and the limiter's time stamp as they were.
C2_CompleteShortcut ==
    (Complete /\ pc # "s1") =>
        /\ Returned
        /\ ret = Some(Existing)
        /\ requests = 0
        /\ log = << >>
        /\ Snapshot = pre

C2_Witness ==
    /\ Returned /\ Complete
    /\ cache # << >>
    /\ fingerprint_cache # << >>

\* C3 as claimed: get_metadata never raises.
C3_NeverRaises == pc # "raised"

\* C4: for a non-generic name the clients are invoked in the order track,
\* acoustic, text; a later one only after every earlier one returned no hit;
\* a hit is returned at once and ends the call.
C4_NonGenericOrder ==
    (~ args.is_generic /\ pc # "idle") =>
        /\ log \in { << >>, << "track" >>, << "track", "acoustic" >>,
                     << "track", "text" >>, << "track", "acoustic", "text" >> }
        /\ ("track" \in Range(log) /\ TrackHit) =>
              /\ Returned /\ source = "track"
              /\ log = << "track" >>
              /\ ret = cache[TrackKey(args)]
        /\ ("acoustic" \in Range(log) /\ AcousticHit) =>
              /\ Returned /\ source = "acoustic"
              /\ log = << "track", "acoustic" >>
        /\ (Returned /\ source = "text") => log[Len(log)] = "text"

C4_Witness ==
    /\ Returned /\ ~ args.is_generic /\ source = "track"
    /\ fingerprint_enabled
    /\ AcousticHit

PositionMatches(tracks, n) ==
    { i \in 1..Len(tracks) :
        tracks[i].position \in NumStrings /\ IntOf(tracks[i].position) = n }
PositionExpected(found, n) ==
    IF found = None \/ found[1] = << >> THEN None
    ELSE IF PositionMatches(found[1], n) # { }
    THEN Some(found[1][CHOOSE i \in PositionMatches(found[1], n) :
                         \A j \in PositionMatches(found[1], n) : i <= j])
    ELSE IF n <= Len(found[1]) THEN Some(found[1][n])
    ELSE None

\* C6: the position step returns the first track whose position equals the
\* track number, else the track at index track_number - 1, else nothing, and
\* then the resolution ends in the fallback.
C6_PositionLookup ==
    (/\ "album" \in Range(log)
     /\ pc \notin { "al_strict", "al_relaxed", "al_fetch" }) =>
        /\ AlbumKey(args) \in DOMAIN album_cache
        /\ LET expected == PositionExpected(album_cache[AlbumKey(args)],
                                            args.track_number)
           IN IF expected # None
              THEN Returned /\ source = "album" /\ ret = expected
              ELSE /\ pc \in { "s4", "s6", "done" }
                   /\ Returned => source = "fallback"

C6_Witness ==
    /\ Returned /\ source = "album"
    /\ args.track_number = 2
    /\ Get(Record, "position") = ""

BaseFields == { "title", "artist", "album", "track_number" }

\* C8: the final fallback has the path-derived title, artist and album and
\* the track number padded to two digits; every existing field is copied in
\* where the fallback's value is missing or empty; nothing else is in it.
C8_FallbackRecord ==
    (Returned /\ source = "fallback") =>
        /\ DOMAIN Record = BaseFields \cup DOMAIN Existing
        /\ \A k \in { "title", "artist", "album" } :
              args[k] # "" => Record[k] = args[k]
        /\ args.track_number # NoTrack =>
              Record["track_number"] = ZFill2(Str(args.track_number))
        /\ \A k \in DOMAIN Existing \ BaseFields : Record[k] = Existing[k]
        /\ \A k \in { "title", "artist", "album" } :
              args[k] = "" => Record[k] = Get(Existing, k)
        /\ args.track_number = NoTrack =>
              Record["track_number"] = Get(Existing, "track_number")

C8_Witness ==
    /\ Returned /\ source = "fallback"
    /\ args.track_number = NoTrack /\ args.album # ""
    /\ Existing = ExPartial
    /\ Get(Record, "track_number") = "07" /\ Get(Record, "genre") = "Rock"

\* C9 as claimed: where the existing tags and the fallback both have a
\* non-empty value, the fallback record returned carries the existing one.
C9_ExistingWins ==
    (Returned /\ source = "fallback") =>
        \A k \in BaseFields :
            (Get(Existing, k) # "" /\ FallbackBase(args)[k] # "") =>
                Record[k] = Existing[k]

\* C9, amended: where both have a non-empty value, the fallback record
\* returned carries the path-derived one.
C9_PathValueWins ==
    (Returned /\ source = "fallback") =>
        /\ \A k \in { "title", "artist", "album" } :
              (Get(Existing, k) # "" /\ args[k] # "") => Record[k] = args[k]
        /\ (Get(Existing, "track_number") # "" /\ args.track_number # NoTrack) =>
              Record["track_number"] = ZFill2(Str(args.track_number))

C9_Witness ==
    /\ Returned /\ source = "fallback"
    /\ Get(Existing, "title") = "Tagged" /\ Get(Record, "title") = "Bohemian"
    /\ Get(Existing, "track_number") = "07" /\ Get(Record, "track_number") = "01"

\* C10 as claimed: a hit on the non-generic path is returned with a
\* non-empty track number whenever the path gave one.
C10_HitHasTrackNumber ==
    (/\ Returned /\ ~ args.is_generic
     /\ source \in { "track", "acoustic", "text" }
     /\ args.track_number # NoTrack) =>
        Get(Record, "track_number") # ""
(***************************************************************************)
(* Properties of the caches.                                               *)
(***************************************************************************)
TrackSteps == { "tr_query" }
AlbumSteps == { "al_strict", "al_relaxed", "al_fetch" }
AcousticSteps == { "fp_probe", "fp_print", "fp_lookup" }
TextSteps == { "lf_track", "lf_correct" }

\* the query of this call is one the client accepts
TrackAsked == args.artist # "" /\ args.title # ""
AlbumAsked == args.artist # "" /\ args.album # ""
AcousticAsked == args.file_path # None /\ args.file_path[1].exists
TextAsked == args.artist # "" /\ args.title # ""

\* the client has been invoked in this call and has returned
TrackOver == "track" \in Range(log) /\ pc \notin TrackSteps
AlbumOver == "album" \in Range(log) /\ pc \notin AlbumSteps
AcousticOver == "acoustic" \in Range(log) /\ pc \notin AcousticSteps \cup { "raised" }
TextOver == "text" \in Range(log) /\ pc \notin TextSteps

\* the cache held a record, or a no-match, under the key when the call began
HeldRecord(c, k) == k \in DOMAIN c /\ IsSome(c[k])
HeldNoMatch(c, k) == k \in DOMAIN c /\ c[k] = None

\* a record after get_metadata has set a missing track number on it
WithTrackNumber(m) ==
    IF args.track_number # NoTrack /\ Get(m, "track_number") = ""
    THEN [k \in DOMAIN m \cup { "track_number" } |->
             IF k = "track_number" THEN ZFill2(Str(args.track_number)) ELSE m[k]]
    ELSE m

C12_NegativeCaching ==
    /\ \A k \in DOMAIN pre.cache : pre.cache[k] = None => cache[k] = None
    /\ \A k \in DOMAIN pre.album_cache :
          pre.album_cache[k] = None => album_cache[k] = None
    /\ \A k \in DOMAIN pre.fingerprint_cache :
          pre.fingerprint_cache[k] = None => fingerprint_cache[k] = None
    /\ \A k \in DOMAIN pre.lastfm_cache :
          pre.lastfm_cache[k] = None => lastfm_cache[k] = None
    /\ (TrackAsked /\ HeldNoMatch(pre.cache, TrackKey(args))) =>
          pc \notin TrackSteps /\ source # "track"
    /\ (AlbumAsked /\ HeldNoMatch(pre.album_cache, AlbumKey(args))) =>
          pc \notin AlbumSteps /\ source # "album"
    /\ (AcousticAsked
        /\ HeldNoMatch(pre.fingerprint_cache, FingerprintKey(args.file_path[1]))) =>
          pc \notin AcousticSteps /\ source # "acoustic"
    /\ (TextAsked /\ HeldNoMatch(pre.lastfm_cache, LastfmKey(args))) =>
          pc \notin TextSteps /\ source # "text"
    /\ (TrackAsked /\ TrackOver /\ source # "track") =>
          HeldNoMatch(cache, TrackKey(args))
    /\ (AlbumAsked /\ AlbumOver) => AlbumKey(args) \in DOMAIN album_cache
    /\ (AcousticOver /\ source # "acoustic") =>
          HeldNoMatch(fingerprint_cache, FingerprintKey(args.file_path[1]))
    /\ (TextAsked /\ TextOver /\ source # "text") =>
          HeldNoMatch(lastfm_cache, LastfmKey(args))

C12_Witness ==
    /\ Returned /\ source = "fallback" /\ requests = 0
    /\ log = << "track", "acoustic", "text" >>
    /\ HeldNoMatch(pre.cache, TrackKey(args))
    /\ HeldNoMatch(pre.fingerprint_cache, FingerprintKey(args.file_path[1]))
    /\ HeldNoMatch(pre.lastfm_cache, LastfmKey(args))
(***************************************************************************)
(* Properties of failed requests, checked where their history is kept.     *)
(***************************************************************************)
AlbumKinds == { "al_strict", "al_relaxed", "al_fetch" }
AcousticKinds == { "probe", "probe_missing", "print", "lookup" }

C14_CatalogSpacing == gap >= RateLimitDelay
(***************************************************************************)
(* Properties of the disabling of clients.                                 *)
(***************************************************************************)
\* C15: once a probe has found fpcalc unavailable the acoustic client is
\* disabled and stays so: in a call that begins with the client disabled it
\* is never invoked, probes nothing, sends nothing and is never the source
\* of the result, and no probe fails after one has in an earlier call.
C15_DisabledForGood ==
    /\ ("fpcalc" \in failures.before \/ "probe_missing" \in failures.now) =>
          ~ fingerprint_enabled
    /\ "fpcalc" \in failures.before =>
          ~ pre.fingerprint_enabled /\ failures.now \cap AcousticKinds = { }
    /\ ~ pre.fingerprint_enabled =>
          /\ ~ fingerprint_enabled
          /\ "acoustic" \notin Range(log)
          /\ pc \notin AcousticSteps
          /\ source # "acoustic"
          /\ fingerprint_cache = pre.fingerprint_cache

C15_Witness ==
    /\ Returned /\ args.is_generic
    /\ "fpcalc" \in failures.before
    /\ args.file_path # None
    /\ FingerprintKey(args.file_path[1]) \notin DOMAIN fingerprint_cache

\* C16 as claimed: after a request to the catalog service or to Last.fm has
\* failed, no later call sends a request to that service.
C16_OutageDisablesClient ==
    /\ "catalog" \in failures.before => pc \notin TrackSteps \cup AlbumSteps
    /\ "text" \in failures.before => pc \notin TextSteps
(***************************************************************************)
(* Properties of the completeness predicate, checked over every            *)
(* combination of tags.                                                    *)
(***************************************************************************)
\* title, artist and album are there and the title is no generic name
CleanText ==
    /\ \A f \in { "title", "artist", "album" } : Get(Existing, f) # ""
    /\ ~ _is_generic_filename(Get(Existing, "title"))
PastStepOne == pc \notin { "idle", "s1" }

\* C17 as claimed: existing tags with title, artist and album, a non-generic
\* title and a recording, album or artist identifier are returned at step 1.
C17_AnyCatalogIdCompletes ==
    (/\ PastStepOne /\ CleanText
     /\ \E f \in { "musicbrainz_recordingid", "musicbrainz_albumid",
                   "musicbrainz_artistid" } : Get(Existing, f) # "") =>
        Returned /\ source = "existing" /\ ret = Some(Existing)

Parsed == parsed # << >>
ParsedPath == path_in[1]
ParsedDirs == ParsedPath.dirs
ParsedStem == Stem(Chars(ParsedPath.name))
LeadingDigits(cs) == SubSeq(cs, 1, Run(cs, 1, Digits) - 1)
\* the name after its leading number and the separators that follow it
WithoutLeadingNumber(cs) ==
    Strip(SubSeq(cs, Run(cs, Run(cs, 1, Digits), Sep4), Len(cs)))
\* <artist>/<album>/<NN title>, the name not generic, the artist directory
\* an artist's name
NumberedTitle ==
    /\ Parsed /\ Len(ParsedDirs) >= 2
    /\ LeadingDigits(ParsedStem) # << >>
    /\ ~ IsGenericChars(ParsedStem)
    /\ LowerSeq(Chars(ParsedDirs[Len(ParsedDirs) - 1])) \notin VariousNames

\* C19 as claimed: a file <artist>/<album>/<NN title>.<ext> whose name is not
\* generic is parsed to artist = the second-to-last directory, track_number =
\* NN padded to two digits, is_generic = FALSE and title = the name without
\* its leading number.
C19_NumberedTitleParsed ==
    NumberedTitle =>
        /\ parsed[1].artist = ParsedDirs[Len(ParsedDirs) - 1]
        /\ parsed[1].track_number = ZFill2(Str(IntOfDigits(LeadingDigits(ParsedStem))))
        /\ parsed[1].is_generic = FALSE
        /\ parsed[1].title = Join(WithoutLeadingNumber(ParsedStem))

\* the last directory and where a year pattern matches in it
AlbumPart == Chars(ParsedDirs[Len(ParsedDirs)])
YearMatches(p) == { i \in 1..Len(AlbumPart) : YearAt(AlbumPart, i, p) }
MatchingPatterns == { p \in 1..NumYearPatterns : YearMatches(p) # { } }
\* the four digits of the first match of the first pattern that matches
MatchedYear ==
    LET p == Leftmost(MatchingPatterns)
        i == Leftmost(YearMatches(p))
    IN IF p = 1 THEN SubSeq(AlbumPart, i, i + YearDigits - 1)
       ELSE SubSeq(AlbumPart, i + 1, i + YearDigits)

\* C20 as claimed: when the last directory holds a four-digit year (bare, in
\* parentheses or in brackets) the parsed year is all four digits of the
\* match and the album is the directory without the year, separators
\* collapsed; when no pattern matches, the album is the directory and the year
\* is empty.
C20_YearAndAlbum ==
    (Parsed /\ Len(ParsedDirs) >= 1) =>
        IF MatchingPatterns # { }
        THEN /\ parsed[1].year = Join(MatchedYear)
             /\ parsed[1].album = Join(AlbumAndYear(AlbumPart).album)
             /\ ParsedDirs[Len(ParsedDirs)] = "A Night at the Opera (1975)" =>
                   parsed[1].album = "A Night at the Opera"
        ELSE /\ parsed[1].album = ParsedDirs[Len(ParsedDirs)]
             /\ parsed[1].year = ""
(***************************************************************************)
(* Properties of the filename classifier, checked over the names of        *)
(* FileNames in every directory of Paths.                                  *)
(***************************************************************************)
\* the names of FileNames of the placeholder forms: "Track NN" in any case,
\* "NN. TrackNN", "Pista NN", "Audio NN", "Song NN", a number alone,
\* "NN - Track", "NN_Song" and "untitled"
PlaceholderNames ==
    { "Track 01.wav", "TRACK 01.wav", "track05.wav", "05. Track05.wav",
      "Pista 03.wav", "Audio 01.wav", "Song 01.wav", "01.wav",
      "7 - Track.wav", "12_Song.wav", "Untitled.wav" }

\* C21: the classifier answers TRUE for the placeholder names, whatever
\* their case, and FALSE for the other names ("Bohemian Rhapsody"), and the
\* answer is the same in whatever directory the file lies.
C21_ClassifierByName ==
    Parsed => (parsed[1].is_generic <=> ParsedPath.name \in PlaceholderNames)

C21_Witness ==
    /\ Parsed /\ ParsedPath.name = "TRACK 01.wav" /\ Len(ParsedDirs) = 2
    /\ parsed[1].is_generic
(***************************************************************************)
(* Properties of the clients' acceptance rules.                            *)
(***************************************************************************)
\* C25 as claimed: every record the text search returns, from the direct
\* lookup or from the lookup with the corrected artist, has a confidence
\* (title similarity plus artist similarity, halved) above 0.8.
C25_TextHitConfident ==
    (Returned /\ source = "text") =>
        LastfmConfidence(Record, args.artist, args.title) > LastfmThreshold
\* the answered requests of one kind, in the order they were sent
HeardOf(kinds) == SelectSeq(trace.seq, LAMBDA e : e.kind \in kinds)
TrackHeard == HeardOf({ "tr_query" })

\* 0.5 x title similarity + 0.3 x artist similarity + 0.2 x best album
\* similarity of a candidate, in ten-thousandths
CandidateScore(c) ==
    5 * Sim(args.title, c.title)
      + 3 * (IF c.credit # << >> THEN Sim(args.artist, c.credit[1].name) ELSE 0)
      + 2 * (IF args.album # "" /\ c.releases # << >>
             THEN Max({ Sim(args.album, c.releases[k].title) : k \in 1..Len(c.releases) })
             ELSE 0)
BestScore(list) == Max({ 0 } \cup { CandidateScore(list[k]) : k \in 1..Len(list) })
\* the answer to formulation e.i clears that formulation's threshold
Cleared(e) ==
    /\ ~ e.raised
    /\ BestScore(e.value) > 0
    /\ BestScore(e.value) >= (IF e.i = 1 THEN 8000 ELSE 6000)

\* C26: the track search sends its formulations in the order 1, 2, 3, 4; it
\* stops at the first whose best candidate scores at least 0.8 (first
\* formulation) or 0.6 (the others) and returns that candidate; it sends
\* nothing after an acceptance; it returns no-match when none of the four
\* clears its threshold.  A search answered from the client's cache sends
\* nothing and is not a search in this sense.
C26_FormulationsInOrder ==
    LET H == TrackHeard
        n == Len(H)
    IN /\ n <= NumStrategies
       /\ \A k \in 1..n : H[k].i = k
       /\ \A k \in 1..(n - 1) : ~ Cleared(H[k])
       /\ pc = "tr_query" => tmp.i = n + 1 /\ (n > 0 => ~ Cleared(H[n]))
       /\ (TrackOver /\ TrackAsked /\ TrackKey(args) \notin DOMAIN pre.cache) =>
             /\ n > 0
             /\ IF Cleared(H[n])
                THEN /\ Returned /\ source = "track"
                     /\ \E k \in 1..Len(H[n].value) :
                           /\ CandidateScore(H[n].value[k]) = BestScore(H[n].value)
                           /\ Record.musicbrainz_recordingid = H[n].value[k].id
                     /\ cache[TrackKey(args)] = ret
                ELSE /\ n = NumStrategies
                     /\ source # "track"
                     /\ cache[TrackKey(args)] = None

C26_Witness ==
    /\ Returned /\ source = "track"
    /\ Len(TrackHeard) = 2
    /\ TrackHeard[1].value = << RcLoose >> /\ ~ TrackHeard[1].raised
    /\ Cleared(TrackHeard[2])
\* the release searches and the release fetches answered in this call
ReleaseSearches == HeardOf({ "al_strict", "al_relaxed" })
ReleaseFetches == HeardOf({ "al_fetch" })
\* album-title similarity plus artist-name similarity of the best candidate
\* of the last release search, in thousandths (twice the average); 0 when
\* that search raised or listed nothing
BestReleaseScore ==
    LET e == ReleaseSearches[Len(ReleaseSearches)]
    IN IF ReleaseSearches = << >> \/ e.raised THEN 0
       ELSE Max({ 0 } \cup { Sim(args.album, e.value[k].title)
                               + Sim(args.artist, e.value[k].credit) :
                             k \in 1..Len(e.value) })

\* C27: the album client fetches and returns a track list only when the best
\* candidate release scores strictly above 0.7; with a best score of 0.7 or
\* less it returns no-match without fetching any release.
C27_AlbumThreshold ==
    /\ (pc = "al_fetch" \/ ReleaseFetches # << >>) => BestReleaseScore > 1400
    /\ (AlbumOver /\ ReleaseSearches # << >>) =>
          /\ IsSome(album_cache[AlbumKey(args)]) => BestReleaseScore > 1400
          /\ BestReleaseScore <= 1400 =>
                /\ ReleaseFetches = << >>
                /\ album_cache[AlbumKey(args)] = None
                /\ source # "album"

C27_Witness ==
    /\ AlbumOver
    /\ ReleaseSearches # << >>
    /\ ReleaseSearches[Len(ReleaseSearches)].value = << RlLoose >>
    /\ BestReleaseScore = 1400
    /\ ReleaseFetches = << >>
    /\ album_cache[AlbumKey(args)] = None
\* the AcoustID lookups answered in this call
AcoustidHeard == HeardOf({ "lookup" })
\* a result with a match score above 0.8 (in percent) that has a recording
Confident(result) == result.score > 80 /\ result.recordings # << >>

\* C28: the acoustic client returns a record only from a result whose score
\* is strictly above 0.8, the first such result of the response that has a
\* recording; when no result scores above 0.8 it returns no-match.
C28_AcousticThreshold ==
    (AcousticOver /\ AcoustidHeard # << >>) =>
        LET e == AcoustidHeard[1]
            held == fingerprint_cache[FingerprintKey(args.file_path[1])]
            results == IF e.raised THEN << >> ELSE e.value
        IN /\ Len(AcoustidHeard) = 1
           /\ IsSome(held) =>
                 \E j \in 1..Len(results) :
                     /\ Confident(results[j])
                     /\ \A k \in 1..(j - 1) : ~ Confident(results[k])
                     /\ held[1].musicbrainz_recordingid = results[j].recordings[1].id
                     /\ held[1].acoustid_score = Str(results[j].score)
                     /\ Returned /\ source = "acoustic" /\ ret = held
           /\ (\A j \in 1..Len(results) : results[j].score <= 80) =>
                 held = None /\ source # "acoustic"

C28_Witness ==
    /\ Returned /\ source = "acoustic"
    /\ AcoustidHeard # << >>
    /\ AcoustidHeard[1].value = << [score |-> 50, recordings |-> << RecFull >>],
                                   [score |-> 90, recordings |-> << RecNoRelease >>] >>
    /\ Record.musicbrainz_recordingid = RecNoRelease.id
\* C29 as claimed: a record that a source client returned as a match carries
\* a non-empty title or a non-empty artist, in the result and in the cache.
C29_HitHasTitleOrArtist ==
    /\ (Returned /\ source \in { "acoustic", "album", "track", "text" }) =>
          Get(Record, "title") # "" \/ Get(Record, "artist") # ""
    /\ \A c \in { cache, fingerprint_cache, lastfm_cache } :
          \A k \in DOMAIN c :
              IsSome(c[k]) => Get(c[k][1], "title") # "" \/ Get(c[k][1], "artist") # ""
\* C30 as claimed: in the track search every formulation after the first is
\* sent only after _rate_limit has run since the previous formulation's
\* request, so the two are at least rate_limit_delay apart, also when the
\* previous request raised.
C30_FormulationsSpaced ==
    \A k \in 2..Len(TrackHeard) :
        TrackHeard[k].at - TrackHeard[k - 1].at >= RateLimitDelay

\* C22 as claimed: a file is counted as failed only when its WAV-to-FLAC
\* conversion failed, never because of tag reading, path parsing, metadata
\* resolution, tag writing or file copying.
C22_FailedOnlyOnConversion ==
    run.cause # "" => run.cause = "convert_failed"

\* the counter the producing step of get_metadata stands for
CounterOf(step) ==
    CASE step = "existing" -> "metadata_complete"
      [] step \in { "album", "track" } -> "metadata_found"
      [] step = "acoustic" -> "metadata_fingerprint"
      [] step = "text" -> "metadata_lastfm"
      [] step = "fallback" -> "metadata_fallback"
      [] OTHER -> ""
ProvenanceTotal ==
    run.stats.metadata_complete + run.stats.metadata_found
    + run.stats.metadata_fingerprint + run.stats.metadata_lastfm
    + run.stats.metadata_fallback
\* C23 as claimed: each file processed with metadata enabled increments
\* exactly one of the five provenance counters, the one of the step of
\* get_metadata that produced the file's record.
C23_OneCounterMatchingStep ==
    /\ ProvenanceTotal = run.resolved
    /\ run.produced # "" => run.counted = CounterOf(run.produced)

\* C24: once a run has completed without interruption the exit status is 0
\* exactly when no file failed, the run with no audio files included, and 1
\* otherwise.
C24_ExitStatus ==
    run.stage = "exited" =>
        /\ run.exit \in { Some(0), Some(1) }
        /\ run.exit = Some(0) <=> run.stats.failed = 0
\* a completed run of two files, one failed and one converted, exits with 1
C24_Witness ==
    /\ run.stage = "exited" /\ run.exit = Some(1)
    /\ run.stats.failed = 1 /\ run.stats.converted = 1

\* album-title plus artist-name similarity of a listed release, for this call
ReleaseCandidateScore(r) == Sim(args.album, r.title) + Sim(args.artist, r.credit)
\* the candidates of the list no other candidate beats, and the first of them
TopOf(list, Score(_)) ==
    { k \in 1..Len(list) : \A j \in 1..Len(list) : Score(list[j]) <= Score(list[k]) }
FirstTop(list, Score(_)) == list[Leftmost(TopOf(list, Score))]
\* C31: the release the album client goes on to fetch, and the recording the
\* track client returns, is a candidate of the highest score of its response,
\* and among several of that score the one listed first.
C31_FirstOfTheBest ==
    /\ pc = "al_fetch" =>
          tmp.release = FirstTop(ReleaseSearches[Len(ReleaseSearches)].value,
                                 ReleaseCandidateScore)
    /\ (Returned /\ source = "track" /\ TrackKey(args) \notin DOMAIN pre.cache) =>
          Record.musicbrainz_recordingid =
             FirstTop(TrackHeard[Len(TrackHeard)].value, CandidateScore).id
\* the track client was answered with two recordings of equal score and
\* returned the one listed first
C31_Witness ==
    /\ Returned /\ source = "track"
    /\ TrackHeard[Len(TrackHeard)].value = << RcReissue, RcExact >>
    /\ CandidateScore(RcReissue) = CandidateScore(RcExact)
    /\ Record.musicbrainz_recordingid = "rec-5"

\* the number the first matching pattern of _extract_track_number captures
\* in the parsed name, as a digit run; empty when no pattern matches
CapturedNumber ==
    LET s == LowerSeq(ParsedStem)
        T == { i \in 1..Len(s) : TrackNumberAt(s, i) }
        N == { i \in 1..Len(s) : NumberTrackAt(s, i) }
        afterTrack == Run(s, Leftmost(T) + Len(W_track), Sep3)
    IN IF LeadingDigits(s) # << >> THEN LeadingDigits(s)
       ELSE IF T # { } THEN SubSeq(s, afterTrack, Run(s, afterTrack, Digits) - 1)
       ELSE IF N # { } THEN SubSeq(s, Leftmost(N), Run(s, Leftmost(N), Digits) - 1)
       ELSE << >>
\* C32 as claimed: when the name starts with a numeric run, or has "track"
\* followed by digits, or digits followed by "track" (first success wins),
\* track_number is that number padded to two digits; it is empty only when
\* none of the three patterns matches.
C32_TrackNumberExtracted ==
    Parsed =>
        IF CapturedNumber = << >> THEN parsed[1].track_number = ""
        ELSE parsed[1].track_number = ZFill2(Str(IntOfDigits(CapturedNumber)))

\* every key of the cache c keeps its entry's outcome in d: a record (for
\* the album client a track list) stays one, a no-match stays a no-match
Kept(c, d) == \A k \in DOMAIN c : k \in DOMAIN d /\ IsSome(d[k]) = IsSome(c[k])
\* C33: in each of the four caches a key that has an entry, record or
\* no-match, stays present and keeps that outcome through every step of
\* every later lookup.
C33_EntriesStay ==
    [][/\ Kept(cache, cache')
       /\ Kept(album_cache, album_cache')
       /\ Kept(fingerprint_cache, fingerprint_cache')
       /\ Kept(lastfm_cache, lastfm_cache')]_vars
\* a second call has gone through the track client and the text client
\* again, for a query both had already cached as a no-match
C33_Witness ==
    /\ calls = 2 /\ Returned /\ TrackOver /\ TextOver
    /\ TrackKey(args) \in DOMAIN pre.cache /\ pre.cache[TrackKey(args)] = None
    /\ LastfmKey(args) \in DOMAIN pre.lastfm_cache
    /\ cache = pre.cache /\ lastfm_cache = pre.lastfm_cache

\* every entry of the cache c is in d with the same value
Untouched(c, d) == \A k \in DOMAIN c : k \in DOMAIN d /\ d[k] = c[k]
\* C34 as claimed: a record stored in a client's cache keeps its field
\* values through the rest of the call that stored it, through later calls
\* and through the converter's handling of the record returned.
C34_CachedRecordsUntouched ==
    [][/\ Untouched(cache, cache')
       /\ Untouched(album_cache, album_cache')
       /\ Untouched(fingerprint_cache, fingerprint_cache')
       /\ Untouched(lastfm_cache, lastfm_cache')]_vars

\* the acoustic client answered this file from an entry its cache held when
\* the file's lookup began
AcousticFromCache ==
    /\ run.stage = "resolving" /\ AcousticOver
    /\ FingerprintKey(args.file_path[1]) \in DOMAIN pre.fingerprint_cache
\* C35 as claimed: an acoustic result cached for one file is never returned
\* for another: a file is answered from the fingerprint cache only if that
\* very path has been looked up before in the run.
C35_EntryPerFile ==
    AcousticFromCache =>
        \E i \in 1..(Len(run.walked) - 1) : run.walked[i] = args.file_path[1].path

\* process_single_file is about to go on with a record a source client gave
SourceRecord == 
    /\ run.stage = "resolving" /\ pc = "done"
    /\ source \in { "album", "track", "acoustic", "text" }
\* C36 as claimed: when get_metadata returned a record accepted from a
\* source, the tags written keep the record's non-empty track number and
\* release date; the path's year and track number are written only for
\* fields the record lacks.
C36_RecordFieldsKept ==
    [][(SourceRecord /\ run'.written) =>
          /\ Get(ret[1], "track_number") # "" =>
                Get(run'.tags[1], "TRACKNUMBER") = ret[1].track_number
          /\ Get(ret[1], "date") # "" =>
                Get(run'.tags[1], "DATE") = ret[1].date]_vars

\* the invocations of the client c in this call
Invocations(c) == { i \in 1..Len(log) : log[i] = c }
\* C37 as claimed: within one call every source client is invoked at most
\* once, at most three invocations happen in all, and the call ends with a
\* returned record, never otherwise.
C37_BoundedAndReturns ==
    /\ \A c \in { "album", "track", "acoustic", "text" } : Cardinality(Invocations(c)) <= 1
    /\ Len(log) <= 3
    /\ pc # "raised"
    /\ Returned => IsSome(ret)

\* the clients a call may have invoked for a generic name, in order
GenericLogs == { << >>, << "acoustic" >>, << "album" >>, << "acoustic", "album" >> }
C39_ShortcutWritesNothing ==
    run.produced = "existing" => ~ run.written /\ run.tags = None
\* a file with complete tags under a directory that gives a year and a name
\* that gives a track number has been processed and counted as complete
C39_Witness ==
    /\ run.produced = "existing" /\ run.counted = "metadata_complete"
    /\ parsed # << >> /\ parsed[1].year # "" /\ parsed[1].track_number # ""
    /\ ~ run.written

\* the files of the list that are not WAV files: copied, not converted
FlacListed == { i \in 1..Len(run.listed) :
                  LowerSeq(Suffix(Chars(run.listed[i].name))) # Chars(".wav") }
\* C40 as claimed: when convert_all has finished, converted + failed is the
\* number of files listed, the files were processed once each in the order
\* listed, and every FLAC file is counted once under skipped_flac and not
\* under converted.
C40_CountsAddUp ==
    run.stage = "exited" =>
        /\ run.stats.converted + run.stats.failed = Len(run.listed)
        /\ run.walked = [i \in 1..Len(run.listed) |-> run.listed[i].path]
        /\ run.stats.skipped_flac = Cardinality(FlacListed)
        /\ run.stats.converted <= Len(run.listed) - Cardinality(FlacListed)

====
